---- MODULE Spec2Model ----
(***************************************************************************)
(* Model of the filter-option aggregation of the Greek Floods map atlas    *)
(* (class FloodMapApp): paginated fetching (_fetchAllRecords), distinct-   *)
(* value reduction (_getUniqueValuesWithCount), cross-filter orchestration *)
(* (loadFilterOptions, handleFilterChange, clearFilters) and the filter    *)
(* option cache.                                                           *)
(***************************************************************************)
EXTENDS Integers, Sequences, FiniteSets, TLC

(***************************************************************************)
(* JavaScript values.  A value is a number, a string (a sequence of        *)
(* one-character strings, so that trimming and conversions are computed),  *)
(* null or NaN.                                                            *)
(***************************************************************************)
Num(n) == [t |-> "number", n |-> n]
Str(s) == [t |-> "string", s |-> s]
Null == [t |-> "null"]
NaN == [t |-> "nan"]

typeof(v) == v.t

\* JavaScript truthiness: null, NaN, 0 and the empty string are falsy.
Truthy(v) ==
    CASE v.t = "null" -> FALSE
      [] v.t = "nan" -> FALSE
      [] v.t = "number" -> v.n # 0
      [] v.t = "string" -> v.s # <<>>

Digits == <<"0", "1", "2", "3", "4", "5", "6", "7", "8", "9">>
LowerLetters == <<"a", "b", "c", "d", "e", "i", "t", "v">>
UpperLetters == <<"A", "B", "C", "D", "E", "I", "T", "V">>

IsSpace(c) == c = " "
IsDigit(c) == \E i \in 1..Len(Digits) : Digits[i] = c
DigitVal(c) == (CHOOSE i \in 1..Len(Digits) : Digits[i] = c) - 1

RECURSIVE TrimLeft(_)
TrimLeft(s) == IF s # <<>> /\ IsSpace(Head(s)) THEN TrimLeft(Tail(s)) ELSE s

RECURSIVE TrimRight(_)
TrimRight(s) ==
    IF s # <<>> /\ IsSpace(s[Len(s)]) THEN TrimRight(SubSeq(s, 1, Len(s) - 1)) ELSE s

\* String.prototype.trim
trim(s) == TrimRight(TrimLeft(s))

RECURSIVE NatToChars(_)
NatToChars(n) ==
    IF n < 10 THEN <<Digits[n + 1]>> ELSE NatToChars(n \div 10) \o <<Digits[(n % 10) + 1]>>

\* String(value) for the values of the model.
String(v) ==
    CASE v.t = "string" -> v.s
      [] v.t = "number" -> IF v.n < 0 THEN <<"-">> \o NatToChars(-v.n) ELSE NatToChars(v.n)
      [] v.t = "null" -> <<"n", "u", "l", "l">>
      [] v.t = "nan" -> <<"N", "a", "N">>

\* The longest prefix of s made of digits.
RECURSIVE DigitPrefix(_)
DigitPrefix(s) ==
    IF s # <<>> /\ IsDigit(Head(s)) THEN <<Head(s)>> \o DigitPrefix(Tail(s)) ELSE <<>>

RECURSIVE CharsToNat(_)
CharsToNat(s) ==
    IF s = <<>> THEN 0 ELSE CharsToNat(SubSeq(s, 1, Len(s) - 1)) * 10 + DigitVal(s[Len(s)])

\* parseInt(s, 10): leading white space, an optional sign, then digits; NaN
\* when no digit follows.
parseInt(s) ==
    LET t == TrimLeft(s)
        neg == t # <<>> /\ Head(t) = "-"
        u == IF t # <<>> /\ Head(t) \in {"-", "+"} THEN Tail(t) ELSE t
        d == DigitPrefix(u)
    IN IF d = <<>> THEN NaN ELSE Num(IF neg THEN -CharsToNat(d) ELSE CharsToNat(d))

\* Fraction digits kept by the model's parseFloat (values are held as
\* integers scaled by 10^FracDigits).
FracDigits == 2

RECURSIVE Pow10(_)
Pow10(k) == IF k = 0 THEN 1 ELSE 10 * Pow10(k - 1)

Scale == Pow10(FracDigits)

RECURSIVE PadRight(_, _)
PadRight(s, n) == IF Len(s) >= n THEN SubSeq(s, 1, n) ELSE PadRight(s \o <<"0">>, n)

\* parseFloat(s) || 0, scaled by Scale: leading white space, an optional
\* sign, digits, an optional fraction; 0 when the text starts with no number.
parseFloatOrZero(s) ==
    LET t == TrimLeft(s)
        neg == t # <<>> /\ Head(t) = "-"
        u == IF t # <<>> /\ Head(t) \in {"-", "+"} THEN Tail(t) ELSE t
        ip == DigitPrefix(u)
        rest == SubSeq(u, Len(ip) + 1, Len(u))
        fp == IF rest # <<>> /\ Head(rest) = "." THEN DigitPrefix(Tail(rest)) ELSE <<>>
        mag == CharsToNat(ip) * Scale + CharsToNat(PadRight(fp, FracDigits))
    IN IF ip = <<>> /\ fp = <<>> THEN 0 ELSE IF neg THEN -mag ELSE mag

(***************************************************************************)
(* String.prototype.localeCompare, as a fixed collation: characters are    *)
(* compared first by primary weight (white space, punctuation, digits,     *)
(* letters without regard to case), a proper prefix sorts first, and       *)
(* strings equal at the primary level are ordered lower case first.        *)
(***************************************************************************)
IndexIn(seq, c) == IF \E i \in 1..Len(seq) : seq[i] = c
                   THEN CHOOSE i \in 1..Len(seq) : seq[i] = c
                   ELSE 0

PrimaryWeight(c) ==
    CASE IsSpace(c) -> 1
      [] c = "-" -> 2
      [] c = "." -> 3
      [] IsDigit(c) -> 4 + DigitVal(c)
      [] IndexIn(LowerLetters, c) > 0 -> 20 + IndexIn(LowerLetters, c)
      [] IndexIn(UpperLetters, c) > 0 -> 20 + IndexIn(UpperLetters, c)
      [] OTHER -> 19

IsUpper(c) == IndexIn(UpperLetters, c) > 0

RECURSIVE PrimaryCompare(_, _)
PrimaryCompare(a, b) ==
    IF a = <<>> /\ b = <<>> THEN 0
    ELSE IF a = <<>> THEN -1
    ELSE IF b = <<>> THEN 1
    ELSE IF PrimaryWeight(Head(a)) < PrimaryWeight(Head(b)) THEN -1
    ELSE IF PrimaryWeight(Head(a)) > PrimaryWeight(Head(b)) THEN 1
    ELSE PrimaryCompare(Tail(a), Tail(b))

RECURSIVE CaseCompare(_, _)
CaseCompare(a, b) ==
    IF a = <<>> \/ b = <<>> THEN 0
    ELSE IF ~IsUpper(Head(a)) /\ IsUpper(Head(b)) THEN -1
    ELSE IF IsUpper(Head(a)) /\ ~IsUpper(Head(b)) THEN 1
    ELSE CaseCompare(Tail(a), Tail(b))

localeCompare(a, b) ==
    IF PrimaryCompare(a, b) # 0 THEN PrimaryCompare(a, b) ELSE CaseCompare(a, b)

(***************************************************************************)
(* _getUniqueValuesWithCount                                               *)
(***************************************************************************)
\* A comparator that leaves the values in insertion order.
M_SortCompareKeepsOrder(a, b, fieldName) == 0

\* The comparator handed to Array.prototype.sort.
SortCompare(a, b, fieldName) ==
    IF fieldName = "deaths_toll"
    THEN parseFloatOrZero(trim(String(a))) - parseFloatOrZero(trim(String(b)))
    ELSE IF typeof(a) = "number" /\ typeof(b) = "number"
    THEN b.n - a.n
    ELSE localeCompare(String(a), String(b))

\* Array.prototype.sort is stable: x goes after every element that does not
\* compare greater than it.
RECURSIVE InsertSorted(_, _, _)
InsertSorted(sorted, x, fieldName) ==
    IF sorted = <<>> THEN <<x>>
    ELSE IF SortCompare(sorted[Len(sorted)], x, fieldName) <= 0 THEN Append(sorted, x)
    ELSE Append(InsertSorted(SubSeq(sorted, 1, Len(sorted) - 1), x, fieldName),
                sorted[Len(sorted)])

RECURSIVE StableSort(_, _)
StableSort(values, fieldName) ==
    IF values = <<>> THEN <<>>
    ELSE InsertSorted(StableSort(SubSeq(values, 1, Len(values) - 1), fieldName),
                      values[Len(values)], fieldName)

InSeq(seq, x) == \E i \in 1..Len(seq) : seq[i] = x

\* A Set of the raw values, strings not trimmed.
RECURSIVE M_UniqueValuesUntrimmed(_)
M_UniqueValuesUntrimmed(data) ==
    IF data = <<>> THEN <<>>
    ELSE LET before == M_UniqueValuesUntrimmed(SubSeq(data, 1, Len(data) - 1))
             value == data[Len(data)]
         IN IF value # Null /\ value # Str(<<>>) /\ ~InSeq(before, value)
            THEN Append(before, value)
            ELSE before

\* The Set of processed values, in insertion order.
RECURSIVE UniqueValues(_)
UniqueValues(data) ==
    IF data = <<>> THEN <<>>
    ELSE LET before == UniqueValues(SubSeq(data, 1, Len(data) - 1))
             value == data[Len(data)]
             processedValue == IF typeof(value) = "string" THEN Str(trim(value.s)) ELSE value
         IN IF value # Null /\ processedValue # Str(<<>>) /\ ~InSeq(before, processedValue)
            THEN Append(before, processedValue)
            ELSE before

\* data holds the values item[fieldName] of the fetched items.
_getUniqueValuesWithCount(data, fieldName) == StableSort(UniqueValues(data), fieldName)

(***************************************************************************)
(* The upstream table and its query interface (the Supabase client):       *)
(* column projection, not-null / not-equal / equal predicates and range    *)
(* pagination.  A query is [select, filters]; a filter is <<op, column,    *)
(* value>>.                                                                *)
(***************************************************************************)
\* Rows per page of _fetchAllRecords (1000 in the source, scaled down).
batchSize == 2

from(column) == [select |-> column, filters |-> <<>>]
notIsNull(q, column) == [q EXCEPT !.filters = Append(@, <<"notnull", column, Null>>)]
notEq(q, column, chars) == [q EXCEPT !.filters = Append(@, <<"neq", column, Str(chars)>>)]
eq(q, column, value) == [q EXCEPT !.filters = Append(@, <<"eq", column, value>>)]

\* SQL comparison: a null column satisfies neither = nor <>.
Satisfies(row, f) ==
    CASE f[1] = "notnull" -> row[f[2]] # Null
      [] f[1] = "neq" -> row[f[2]] # Null /\ row[f[2]] # f[3]
      [] f[1] = "eq" -> row[f[2]] # Null /\ row[f[2]] = f[3]

Matches(row, q) == \A i \in 1..Len(q.filters) : Satisfies(row, q.filters[i])

RECURSIVE QueryResult(_, _)
\* The selected column of the rows of tbl that satisfy q, in table order.
QueryResult(tbl, q) ==
    IF tbl = <<>> THEN <<>>
    ELSE LET rest == QueryResult(Tail(tbl), q)
         IN IF Matches(Head(tbl), q) THEN <<Head(tbl)[q.select]>> \o rest ELSE rest

Min(a, b) == IF a < b THEN a ELSE b

\* query.range(offset, offset + batchSize - 1) on a result.
range(result, offset, to) == SubSeq(result, offset + 1, Min(to + 1, Len(result)))

(***************************************************************************)
(* _fetchAllRecords: one iteration of the loop, taken when the response    *)
(* to the outstanding page request arrives with `data`.                    *)
(***************************************************************************)
FetchInit == [offset |-> 0, allRecords |-> <<>>, finished |-> FALSE]

\* A loop that skips every other page.
M_FetchStepSkipsPage(f, data) ==
    IF Len(data) = 0
    THEN [f EXCEPT !.finished = TRUE]
    ELSE IF Len(data) < batchSize
    THEN [f EXCEPT !.allRecords = @ \o data, !.finished = TRUE]
    ELSE [f EXCEPT !.allRecords = @ \o data, !.offset = @ + 2 * batchSize]

\* A loop that stops after its first response.
M_FetchStepFirstPageOnly(f, data) ==
    [f EXCEPT !.allRecords = @ \o data, !.finished = TRUE]

\* A loop that stops only at an empty page.
M_FetchStepUntilEmpty(f, data) ==
    IF Len(data) = 0
    THEN [f EXCEPT !.finished = TRUE]
    ELSE [f EXCEPT !.allRecords = @ \o data, !.offset = @ + batchSize]

FetchStep(f, data) ==
    IF Len(data) = 0
    THEN [f EXCEPT !.finished = TRUE]
    ELSE IF Len(data) < batchSize
    THEN [f EXCEPT !.allRecords = @ \o data, !.finished = TRUE]
    ELSE [f EXCEPT !.allRecords = @ \o data, !.offset = @ + batchSize]

(***************************************************************************)
(* Filter dimensions: the keys of selectedFilters, their table columns,    *)
(* and the order in which loadFilterOptions queries them.                  *)
(***************************************************************************)
Dims == {"year", "location", "deathsToll", "eventName"}
DimOrder == <<"year", "location", "deathsToll", "eventName">>
Column(d) ==
    CASE d = "year" -> "year"
      [] d = "location" -> "location_name"
      [] d = "deathsToll" -> "deaths_toll"
      [] d = "eventName" -> "flood_event_name"

\* selectedFilters = {}
EmptyObject == [k \in {} |-> Null]

\* selectedFilters.key; a missing key reads as undefined, modelled by null.
Get(obj, key) == IF key \in DOMAIN obj THEN obj[key] ELSE Null

\* q with .eq(column(d), selectedFilters[d]) added when the value is truthy.
EqIfSelected(q, selectedFilters, d) ==
    IF Truthy(Get(selectedFilters, d)) THEN eq(q, Column(d), Get(selectedFilters, d)) ELSE q

yearsQuery(selectedFilters) ==
    EqIfSelected(EqIfSelected(notIsNull(from("year"), "year"),
                              selectedFilters, "location"),
                 selectedFilters, "deathsToll")

locationsQuery(selectedFilters) ==
    EqIfSelected(EqIfSelected(notIsNull(from("location_name"), "location_name"),
                              selectedFilters, "year"),
                 selectedFilters, "deathsToll")

deathsTollQuery(selectedFilters) ==
    EqIfSelected(EqIfSelected(notEq(notEq(notIsNull(from("deaths_toll"), "deaths_toll"),
                                          "deaths_toll", <<>>),
                                    "deaths_toll", <<" ">>),
                              selectedFilters, "year"),
                 selectedFilters, "location")

eventNamesQuery(selectedFilters) ==
    EqIfSelected(EqIfSelected(EqIfSelected(
                     notEq(notIsNull(from("flood_event_name"), "flood_event_name"),
                           "flood_event_name", <<>>),
                     selectedFilters, "year"),
                     selectedFilters, "location"),
                 selectedFilters, "deathsToll")

\* The query of the dim-th aggregation of loadFilterOptions.
QueryOf(dim, selectedFilters) ==
    CASE dim = 1 -> yearsQuery(selectedFilters)
      [] dim = 2 -> locationsQuery(selectedFilters)
      [] dim = 3 -> deathsTollQuery(selectedFilters)
      [] dim = 4 -> eventNamesQuery(selectedFilters)

\* A cache check that takes every request for one without filters.
M_NoFiltersAppliedAlways(selectedFilters) == TRUE

\* Object.keys(selectedFilters).length === 0
NoFiltersApplied(selectedFilters) == Cardinality(DOMAIN selectedFilters) = 0

(***************************************************************************)
(* Bounds of the model.                                                    *)
(***************************************************************************)
\* Clear Filters runs that may be in flight at once.
MaxClearInFlight == 1
\* Clock ticks of a behaviour.
MaxTicks == 1
\* User actions (dropdown changes, Clear Filters clicks) and upstream changes
\* of a behaviour.
MaxEvents == 2

FILTER_CACHE_TTL == 5 * 60 * 1000
\* The clock advances in steps of one TTL, from a positive Date.now(): a
\* cache entry is read at age 0 or at an age of at least the TTL.
TickMs == FILTER_CACHE_TTL
StartTime == TickMs

Row(y, l, d, e) ==
    [year |-> y, location_name |-> l, deaths_toll |-> d, flood_event_name |-> e]

\* The floods table before and after an upstream change.
Table1 ==
    << Row(Num(2021), Str(<<"A">>), Str(<<"0">>), Str(<<"D">>)),
       Row(Num(1999), Str(<<"A">>), Str(<<"0">>), Null) >>
Table2 == Append(Table1, Row(Num(1999), Str(<<"V">>), Str(<<"5">>), Str(<<"D">>)))
Tables == {Table1, Table2}

(***************************************************************************)
(* State.                                                                  *)
(***************************************************************************)
VARIABLES
    now,                          \* Date.now()
    table,                        \* the upstream floods table
    selValue,                     \* select.value of each filter dropdown
    selOptions,                   \* option values of each dropdown (after "All")
    selDisabled,                  \* select.disabled
    selErrorState,                \* class filter-error-state
    filterErrorShown,             \* #filter-error visible
    filterOptions,                \* this.filterOptions
    filterOptionsCache,           \* this.filterOptionsCache
    filterOptionsCacheTimestamp,  \* this.filterOptionsCacheTimestamp
    isUpdatingFilters,            \* this.isUpdatingFilters
    tasks,                        \* the asynchronous calls in flight
    events,                       \* user actions and upstream changes so far
    lastAction,                   \* the step just taken (history)
    call                          \* the component taken alone (one call of
                                  \* _fetchAllRecords or _getUniqueValuesWithCount,
                                  \* the submission form and its tables, ...)

vars == <<now, table, selValue, selOptions, selDisabled, selErrorState,
          filterErrorShown, filterOptions, filterOptionsCache,
          filterOptionsCacheTimestamp, isUpdatingFilters, tasks, events,
          lastAction, call>>

\* The state of the application, without the call taken alone.
appVars == <<now, table, selValue, selOptions, selDisabled, selErrorState,
             filterErrorShown, filterOptions, filterOptionsCache,
             filterOptionsCacheTimestamp, isUpdatingFilters, tasks, events,
             lastAction>>

\* Asynchronous calls: init(), the handleFilterChange run, clearFilters() runs.
INIT == 0
HFC == 1
ClearIds == 2..(1 + MaxClearInFlight)
TaskIds == {INIT, HFC} \cup ClearIds

\* A call of loadFilterOptions is in flight while pc = "fetch": one page
\* request of aggregation number dim is outstanding.  older and newerDone
\* are history: the runs in flight when this one started, and whether a run
\* started after this one has already shown its result.
IdleTask == [pc |-> "idle", selectedFilters |-> EmptyObject, dim |-> 0,
             fetch |-> FetchInit, got |-> <<>>, older |-> {}, newerDone |-> FALSE]

InFlight(id) == tasks[id].pc = "fetch"

\* partial: whether the run the step belongs to had gathered rows or option
\* lists before the step.
Step(name, id, partial) == [name |-> name, task |-> id, partial |-> partial]

Gathered(t) == t.dim > 1 \/ t.fetch.allRecords # <<>>

(***************************************************************************)
(* Helpers of loadFilterOptions.                                           *)
(***************************************************************************)
isFilterCacheValid(cache, timestamp) ==
    IF ~(cache # Null) \/ ~Truthy(timestamp)
    THEN FALSE
    ELSE now - timestamp.n < FILTER_CACHE_TTL

\* An invalidation that leaves the cache in place.
M_invalidateFilterCacheKeeps ==
    [cache |-> filterOptionsCache, timestamp |-> filterOptionsCacheTimestamp]

\* invalidateFilterCache: the new cache and timestamp.
invalidateFilterCache == [cache |-> Null, timestamp |-> Null]

OptionsKey(d) ==
    CASE d = "year" -> "years"
      [] d = "location" -> "locations"
      [] d = "deathsToll" -> "deathsToll"
      [] d = "eventName" -> "eventNames"

\* populateDropdown: the select's new option values and selected value.
populateDropdown(options, currentValue) ==
    LET valueToSet == String(currentValue)
        matchFound == \E i \in 1..Len(options) : String(options[i]) = valueToSet
    IN [options |-> [i \in 1..Len(options) |-> String(options[i])],
        value |-> IF currentValue # Null /\ currentValue # Str(<<>>) /\ matchFound
                  THEN valueToSet
                  ELSE <<>>]

\* populateFilterDropdowns over this.filterOptions = options, with the
\* dropdown values domValues at the time of the call.
populateFilterDropdowns(options, selectedFilters, domValues) ==
    LET current(d) == IF Truthy(Get(selectedFilters, d))
                      THEN Get(selectedFilters, d)
                      ELSE Str(domValues[d])
        p(d) == populateDropdown(options[OptionsKey(d)], current(d))
    IN [value |-> [d \in Dims |-> p(d).value], options |-> [d \in Dims |-> p(d).options]]

\* The dropdowns addFilterErrorState and disableFilterDropdowns select.
ErrorStateDims == {"year", "location", "deathsToll"}

\* An error state that also disables the dropdowns.
M_addFilterErrorStateDisables ==
    [disabled |-> [d \in Dims |-> selDisabled[d] \/ d \in ErrorStateDims],
     errorState |-> [d \in Dims |-> selErrorState[d] \/ d \in ErrorStateDims]]

addFilterErrorState ==
    [disabled |-> selDisabled,
     errorState |-> [d \in Dims |-> selErrorState[d] \/ d \in ErrorStateDims]]

disableFilterDropdowns ==
    [disabled |-> [d \in Dims |-> selDisabled[d] \/ d \in ErrorStateDims],
     errorState |-> [d \in Dims |-> selErrorState[d] \/ d \in ErrorStateDims]]

\* The selectedFilters object handleFilterChange reads from the dropdowns.
SelectedFiltersOf(domValues) ==
    [year |-> IF domValues["year"] # <<>> THEN parseInt(domValues["year"]) ELSE Null,
     location |-> Str(domValues["location"]),
     deathsToll |-> Str(domValues["deathsToll"]),
     eventName |-> Str(domValues["eventName"])]

\* tasks once run id has settled: it leaves the others' older sets, and on
\* success every older run still in flight has been overtaken.
Release(id, success) ==
    [j \in TaskIds |->
        IF j = id THEN IdleTask
        ELSE [tasks[j] EXCEPT !.older = @ \ {id},
                              !.newerDone = @ \/ (success /\ j \in tasks[id].older)]]

(***************************************************************************)
(* loadFilterOptions.                                                      *)
(***************************************************************************)
\* The call, up to its first await: with a valid cache and no filters the
\* cached options are shown and the call returns; otherwise the first page
\* of the years query is requested.  domValues, cache and timestamp are the
\* dropdown values and the cache as the caller left them.
loadFilterOptions(id, selectedFilters, domValues, cache, timestamp) ==
    IF isFilterCacheValid(cache, timestamp) /\ NoFiltersApplied(selectedFilters)
    THEN LET p == populateFilterDropdowns(cache, selectedFilters, domValues)
         IN /\ filterOptions' = cache
            /\ selValue' = p.value
            /\ selOptions' = p.options
            /\ tasks' = [tasks EXCEPT ![id] = IdleTask]
    ELSE /\ tasks' = [tasks EXCEPT ![id] =
                        [pc |-> "fetch", selectedFilters |-> selectedFilters, dim |-> 1,
                         fetch |-> FetchInit, got |-> <<>>,
                         older |-> {j \in TaskIds \ {id} : InFlight(j)},
                         newerDone |-> FALSE]]
         /\ selValue' = domValues
         /\ UNCHANGED <<filterOptions, selOptions>>

\* A success path that caches the options of every load.
M_LoadSucceededCachesAlways(id, got) ==
    LET selectedFilters == tasks[id].selectedFilters
        options == [years |-> got[1], locations |-> got[2],
                    deathsToll |-> got[3], eventNames |-> got[4]]
        p == populateFilterDropdowns(options, selectedFilters, selValue)
    IN /\ filterOptions' = options
       /\ filterOptionsCache' = options
       /\ filterOptionsCacheTimestamp' = Num(now)
       /\ selValue' = p.value
       /\ selOptions' = p.options
       /\ filterErrorShown' = FALSE
       /\ UNCHANGED <<selDisabled, selErrorState>>

\* The end of the try block: every aggregation has returned.
LoadSucceeded(id, got) ==
    LET selectedFilters == tasks[id].selectedFilters
        options == [years |-> got[1], locations |-> got[2],
                    deathsToll |-> got[3], eventNames |-> got[4]]
        p == populateFilterDropdowns(options, selectedFilters, selValue)
    IN /\ filterOptions' = options
       /\ IF NoFiltersApplied(selectedFilters)
          THEN /\ filterOptionsCache' = options
               /\ filterOptionsCacheTimestamp' = Num(now)
          ELSE UNCHANGED <<filterOptionsCache, filterOptionsCacheTimestamp>>
       /\ selValue' = p.value
       /\ selOptions' = p.options
       /\ filterErrorShown' = FALSE
       /\ UNCHANGED <<selDisabled, selErrorState>>

\* A catch block that resets the options and the cache.
M_LoadFailedResets(id) ==
    /\ filterErrorShown' = TRUE
    /\ selDisabled' = selDisabled
    /\ selErrorState' = [d \in Dims |-> selErrorState[d] \/ d \in ErrorStateDims]
    /\ filterOptions' = EmptyObject
    /\ filterOptionsCache' = Null
    /\ filterOptionsCacheTimestamp' = Null
    /\ selOptions' = [d \in Dims |-> <<>>]
    /\ UNCHANGED selValue

\* The catch block.
LoadFailed(id) ==
    /\ filterErrorShown' = TRUE
    /\ selDisabled' = addFilterErrorState.disabled
    /\ selErrorState' = addFilterErrorState.errorState
    /\ UNCHANGED <<filterOptions, filterOptionsCache, filterOptionsCacheTimestamp,
                   selValue, selOptions>>

\* What the caller does once its loadFilterOptions has settled: the finally
\* block of handleFilterChange resets the guard.
CallerResumes(id) ==
    isUpdatingFilters' = IF id = HFC THEN FALSE ELSE isUpdatingFilters

\* The response to the outstanding page request of run id arrives.
PageResponse(id) ==
    /\ InFlight(id)
    /\ LET t == tasks[id]
           result == QueryResult(table, QueryOf(t.dim, t.selectedFilters))
           data == range(result, t.fetch.offset, t.fetch.offset + batchSize - 1)
           f == FetchStep(t.fetch, data)
           got == Append(t.got,
                         _getUniqueValuesWithCount(f.allRecords, Column(DimOrder[t.dim])))
       IN /\ lastAction' = Step("PageResponse", id, Gathered(t))
          /\ IF ~f.finished
             THEN /\ tasks' = [tasks EXCEPT ![id].fetch = f]
                  /\ UNCHANGED <<selValue, selOptions, selDisabled, selErrorState,
                                 filterErrorShown, filterOptions, filterOptionsCache,
                                 filterOptionsCacheTimestamp, isUpdatingFilters>>
             ELSE IF t.dim < Len(DimOrder)
             THEN /\ tasks' = [tasks EXCEPT ![id].dim = t.dim + 1,
                                            ![id].fetch = FetchInit,
                                            ![id].got = got]
                  /\ UNCHANGED <<selValue, selOptions, selDisabled, selErrorState,
                                 filterErrorShown, filterOptions, filterOptionsCache,
                                 filterOptionsCacheTimestamp, isUpdatingFilters>>
             ELSE /\ LoadSucceeded(id, got)
                  /\ tasks' = Release(id, TRUE)
                  /\ CallerResumes(id)
    /\ UNCHANGED <<now, table, events, call>>

\* The outstanding page request of run id fails.
PageError(id) ==
    /\ InFlight(id)
    /\ lastAction' = Step("PageError", id, Gathered(tasks[id]))
    /\ LoadFailed(id)
    /\ tasks' = Release(id, FALSE)
    /\ CallerResumes(id)
    /\ UNCHANGED <<now, table, events, call>>

(***************************************************************************)
(* init: the connection test has answered; init goes on to                 *)
(* loadFilterOptions() whatever the answer.                                *)
(***************************************************************************)
CheckDbResponse(ok) ==
    /\ tasks[INIT].pc = "checkDb"
    /\ lastAction' = Step(IF ok THEN "CheckDbOk" ELSE "CheckDbFailed", INIT, FALSE)
    /\ IF ok
       THEN UNCHANGED <<selDisabled, selErrorState, filterErrorShown>>
       ELSE /\ selDisabled' = disableFilterDropdowns.disabled
            /\ selErrorState' = disableFilterDropdowns.errorState
            /\ filterErrorShown' = TRUE
    /\ loadFilterOptions(INIT, EmptyObject, selValue,
                         filterOptionsCache, filterOptionsCacheTimestamp)
    /\ UNCHANGED <<now, table, filterOptionsCache, filterOptionsCacheTimestamp,
                   isUpdatingFilters, events, call>>

(***************************************************************************)
(* handleFilterChange: the user picks value v in dropdown d, and the       *)
(* change event runs the handler.                                          *)
(***************************************************************************)
FilterChangeGuarded(d, v, updating) ==
    /\ events < MaxEvents
    /\ events' = events + 1
    /\ ~selDisabled[d]
    /\ v # selValue[d]
    /\ v = <<>> \/ InSeq(selOptions[d], v)
    /\ lastAction' = Step("FilterChange", HFC, FALSE)
    /\ LET domValues == [selValue EXCEPT ![d] = v]
       IN IF updating
          THEN /\ selValue' = domValues
               /\ UNCHANGED <<filterOptions, selOptions, tasks, isUpdatingFilters>>
          ELSE /\ loadFilterOptions(HFC, SelectedFiltersOf(domValues), domValues,
                                    filterOptionsCache, filterOptionsCacheTimestamp)
               /\ isUpdatingFilters' = (tasks'[HFC].pc = "fetch")
    /\ UNCHANGED <<now, table, selDisabled, selErrorState, filterErrorShown,
                   filterOptionsCache, filterOptionsCacheTimestamp, call>>

\* A handler without the reentrancy guard.
M_handleFilterChangeUnguarded(d, v) == FilterChangeGuarded(d, v, FALSE)

handleFilterChange(d, v) == FilterChangeGuarded(d, v, isUpdatingFilters)

(***************************************************************************)
(* clearFilters: the Clear Filters button.                                 *)
(***************************************************************************)
clearFilters(id) ==
    /\ events < MaxEvents
    /\ events' = events + 1
    /\ ~InFlight(id)
    /\ \A j \in ClearIds : j < id => InFlight(j)
    /\ lastAction' = Step("ClearFilters", id, FALSE)
    /\ filterOptionsCache' = invalidateFilterCache.cache
    /\ filterOptionsCacheTimestamp' = invalidateFilterCache.timestamp
    /\ loadFilterOptions(id, EmptyObject, [d \in Dims |-> <<>>],
                         filterOptionsCache', filterOptionsCacheTimestamp')
    /\ UNCHANGED <<now, table, selDisabled, selErrorState, filterErrorShown,
                   isUpdatingFilters, call>>

(***************************************************************************)
(* clearIndividualFilter: the remove button of the active-filter badge of  *)
(* dropdown d.  applyFilters draws a badge for every dropdown with a value *)
(* each time a run of handleFilterChange or clearFilters settles, so with  *)
(* no run in flight the badges are those of the dropdown values.  The      *)
(* handler clears the dropdown and calls applyFilters, which reloads the   *)
(* map data; it does not call loadFilterOptions, and setting select.value  *)
(* from script fires no change event.                                      *)
(***************************************************************************)
clearIndividualFilter(d) ==
    /\ events < MaxEvents
    /\ events' = events + 1
    /\ \A id \in TaskIds : ~InFlight(id)
    /\ selValue[d] # <<>>
    /\ selValue' = [selValue EXCEPT ![d] = <<>>]
    /\ lastAction' = Step("ClearIndividualFilter", HFC, FALSE)
    /\ UNCHANGED <<now, table, selOptions, selDisabled, selErrorState,
                   filterErrorShown, filterOptions, filterOptionsCache,
                   filterOptionsCacheTimestamp, isUpdatingFilters, tasks, call>>

(***************************************************************************)
(* Environment: time passes; the upstream table changes (between calls:    *)
(* no result set changes while a call is paging through it).               *)
(***************************************************************************)
Tick ==
    /\ now < StartTime + MaxTicks * TickMs
    /\ now' = now + TickMs
    /\ lastAction' = Step("Tick", INIT, FALSE)
    /\ UNCHANGED <<table, selValue, selOptions, selDisabled, selErrorState,
                   filterErrorShown, filterOptions, filterOptionsCache,
                   filterOptionsCacheTimestamp, isUpdatingFilters, tasks, events,
                   call>>

DataChange ==
    /\ events < MaxEvents
    /\ events' = events + 1
    /\ \A id \in TaskIds : ~InFlight(id)
    /\ table' \in Tables \ {table}
    /\ lastAction' = Step("DataChange", INIT, FALSE)
    /\ UNCHANGED <<now, selValue, selOptions, selDisabled, selErrorState,
                   filterErrorShown, filterOptions, filterOptionsCache,
                   filterOptionsCacheTimestamp, isUpdatingFilters, tasks, call>>

(***************************************************************************)
(* The state after construction: init() has run up to the await of the     *)
(* connection test; the dropdowns hold only their "All" option.            *)
(***************************************************************************)
NoCall == [result |-> <<>>, f |-> FetchInit, pc |-> "none", requests |-> <<>>]

AppInit ==
    /\ now = StartTime
    /\ table = Table1
    /\ selValue = [d \in Dims |-> <<>>]
    /\ selOptions = [d \in Dims |-> <<>>]
    /\ selDisabled = [d \in Dims |-> FALSE]
    /\ selErrorState = [d \in Dims |-> FALSE]
    /\ filterErrorShown = FALSE
    /\ filterOptions = EmptyObject
    /\ filterOptionsCache = Null
    /\ filterOptionsCacheTimestamp = Null
    /\ isUpdatingFilters = FALSE
    /\ events = 0
    /\ tasks = [id \in TaskIds |-> IF id = INIT THEN [IdleTask EXCEPT !.pc = "checkDb"]
                                   ELSE IdleTask]
    /\ lastAction = Step("Init", INIT, FALSE)

Init == AppInit /\ call = NoCall

Next ==
    \/ \E ok \in BOOLEAN : CheckDbResponse(ok)
    \/ \E d \in Dims : \E v \in {<<>>} \cup {selOptions[d][i] : i \in 1..Len(selOptions[d])} :
          handleFilterChange(d, v)
    \/ \E id \in ClearIds : clearFilters(id)
    \/ \E id \in TaskIds : PageResponse(id)
    \/ \E id \in TaskIds : PageError(id)
    \/ Tick
    \/ DataChange

Spec == Init /\ [][Next]_vars

\* The application with the active-filter badges.
NextBadge ==
    \/ Next
    \/ \E d \in Dims : clearIndividualFilter(d)

SpecBadge == Init /\ [][NextBadge]_vars

(***************************************************************************)
(* One _fetchAllRecords call taken alone, over every upstream result of    *)
(* up to MaxRows rows: call.result is the result of the query, which does  *)
(* not change during the call; call.requests lists the ranges requested.   *)
(***************************************************************************)
MaxRows == 2 * batchSize + 1

\* Column values of the rows of an upstream result.
FetchValues == {Str(<<"a">>), Str(<<"a", " ">>), Null}

FetchResults == UNION {[1..n -> FetchValues] : n \in 0..MaxRows}

Request(offset) == <<offset, offset + batchSize - 1>>

FetchCallInit ==
    /\ AppInit
    /\ \E result \in FetchResults :
          call = [result |-> result, f |-> FetchInit, pc |-> "awaiting",
                  requests |-> <<Request(0)>>]

\* The response to the outstanding request arrives.
FetchResponse ==
    /\ call.pc = "awaiting"
    /\ LET data == range(call.result, call.f.offset, call.f.offset + batchSize - 1)
           f == FetchStep(call.f, data)
       IN call' = [call EXCEPT !.f = f,
                               !.pc = IF f.finished THEN "returned" ELSE "awaiting",
                               !.requests = IF f.finished THEN @
                                            ELSE Append(@, Request(f.offset))]
    /\ UNCHANGED appVars

\* The outstanding request fails: the error is thrown to the caller.
FetchError ==
    /\ call.pc = "awaiting"
    /\ call' = [call EXCEPT !.pc = "thrown"]
    /\ UNCHANGED appVars

FetchNext == FetchResponse \/ FetchError

SpecFetch == FetchCallInit /\ [][FetchNext]_vars

\* Every request is answered, by a page or by an error.
SpecFetchFair == SpecFetch /\ WF_vars(FetchNext)

(***************************************************************************)
(* One _getUniqueValuesWithCount call taken alone, over the values of a    *)
(* column of up to MaxItems fetched items: year is an integer column, the  *)
(* others are text columns (deaths_toll is compared through parseFloat     *)
(* whatever the type).                                                     *)
(***************************************************************************)
MaxItems == 3

ColumnValues(fieldName) ==
    CASE fieldName = "year" -> {Num(1999), Num(2021), Num(1987), Null}
      [] fieldName = "location_name" ->
            {Str(<<"a">>), Str(<<"A">>), Str(<<" ", "a">>), Str(<<"b", " ">>),
             Str(<<"a", "b">>), Str(<<>>), Str(<<" ">>), Null}
      [] fieldName = "deaths_toll" ->
            {Str(<<"0">>), Str(<<"5">>), Str(<<"1", "0">>), Str(<<" ", "5">>),
             Str(<<"2", ".", "5">>), Str(<<"a">>), Num(5), Null}

FieldNames == {"year", "location_name", "deaths_toll"}

UniqueCallInit ==
    /\ AppInit
    /\ \E fieldName \in FieldNames : \E n \in 0..MaxItems :
          \E data \in [1..n -> ColumnValues(fieldName)] :
             call = [pc |-> "called", fieldName |-> fieldName, data |-> data,
                     sortedValues |-> <<>>]

UniqueReturns ==
    /\ call.pc = "called"
    /\ call' = [call EXCEPT !.pc = "done",
                            !.sortedValues = _getUniqueValuesWithCount(call.data,
                                                                       call.fieldName)]
    /\ UNCHANGED appVars

SpecUnique == UniqueCallInit /\ [][UniqueReturns]_vars

(***************************************************************************)
(* The submission form (submissions page) and the tables behind it, for    *)
(* one contributor email.  Time is counted in days; the clock advances by  *)
(* one rate-limit window at a time, so a row is of this window or older    *)
(* than the window.  A statement of a client reads the rows committed      *)
(* when it runs; the row of an INSERT is visible to others once committed. *)
(***************************************************************************)
\* MAX_SUBMISSIONS_PER_EMAIL_WEEK, and the 10 of submissions_public_insert.
MAX_SUBMISSIONS_PER_EMAIL_WEEK == 2
\* Browsers with the form open.
MaxClients == 2
\* Form submissions of a behaviour.
MaxAttempts == 4
\* Rate-limit windows that pass in a behaviour.
MaxWeeks == 1

SEVEN_DAYS == 7

Clients == 1..MaxClients

NoRow == [t |-> "none"]

\* rate_limits_public_read_own: anon reads the submission_rate_limits row of
\* an identifier that occurs as contributor_email in submissions.
RateLimitRowVisible(sub) == sub.rateLimit # NoRow /\ sub.submissions # <<>>

\* .gt('blocked_until', now) on the visible row.
BlockedRowVisible(sub) ==
    /\ RateLimitRowVisible(sub)
    /\ sub.rateLimit.blocked_until # Null
    /\ sub.rateLimit.blocked_until.n > sub.clock

\* The rows of submissions with submission_date > NOW() - INTERVAL '7 days'.
RecentSubmissions(sub) ==
    {i \in 1..Len(sub.submissions) : sub.submissions[i] > sub.clock - SEVEN_DAYS}

\* checkRateLimit, second query: the visible row with last_submission in the
\* last 7 days holds a count of MAX_SUBMISSIONS_PER_EMAIL_WEEK or more.
CountLimitReached(sub) ==
    /\ RateLimitRowVisible(sub)
    /\ sub.rateLimit.last_submission > sub.clock - SEVEN_DAYS
    /\ sub.rateLimit.submission_count >= MAX_SUBMISSIONS_PER_EMAIL_WEEK

\* WITH CHECK of submissions_public_insert, evaluated as anon.
submissions_public_insert(sub) ==
    /\ Cardinality(RecentSubmissions(sub)) < MAX_SUBMISSIONS_PER_EMAIL_WEEK
    /\ ~BlockedRowVisible(sub)

\* upsert(rateLimitUpdate, onConflict identifier,identifier_type): the
\* columns given are written, blocked_until is kept.
UpsertRateLimit(sub) ==
    [submission_count |-> 1,
     last_submission |-> sub.clock,
     blocked_until |-> IF sub.rateLimit = NoRow THEN Null ELSE sub.rateLimit.blocked_until]

SubStep(sub, c, name, pc) ==
    [sub EXCEPT !.client[c] = pc, !.last = [name |-> name, client |-> c]]

SubmitInit ==
    /\ AppInit
    /\ call = [pc |-> "submissions", clock |-> SEVEN_DAYS, submissions |-> <<>>,
               rateLimit |-> NoRow, client |-> [c \in Clients |-> "idle"],
               attempts |-> 0, last |-> [name |-> "Init", client |-> 0]]

\* submitForm: the form is submitted; checkRateLimit sends its first query.
submitForm(c) ==
    /\ call.client[c] = "idle"
    /\ call.attempts < MaxAttempts
    /\ call' = [SubStep(call, c, "submitForm", "checkBlocked") EXCEPT !.attempts = @ + 1]
    /\ UNCHANGED appVars

\* checkRateLimit: the answer to the blocked_until query.
BlockedResponse(c) ==
    /\ call.client[c] = "checkBlocked"
    /\ call' = IF BlockedRowVisible(call)
               THEN SubStep(call, c, "RejectedByCheck", "idle")
               ELSE SubStep(call, c, "BlockedResponse", "checkCount")
    /\ UNCHANGED appVars

\* checkRateLimit: the answer to the submission_count query; when allowed,
\* submitForm sends the insert.
CountResponse(c) ==
    /\ call.client[c] = "checkCount"
    /\ call' = IF CountLimitReached(call)
               THEN SubStep(call, c, "RejectedByCheck", "idle")
               ELSE SubStep(call, c, "AllowedByCheck", "insert")
    /\ UNCHANGED appVars

\* A check that treats a failed lookup as a rejection.
M_CheckErrorBlocks(c) ==
    /\ call.client[c] \in {"checkBlocked", "checkCount"}
    /\ call' = SubStep(call, c, "CheckError", "idle")
    /\ UNCHANGED appVars

\* checkRateLimit: a query fails.  Either its data is null and the check
\* goes on as if nothing was found, or the failure is thrown and the catch
\* block answers allowed at once.
CheckError(c) ==
    /\ call.client[c] \in {"checkBlocked", "checkCount"}
    /\ \E thrown \in BOOLEAN :
          call' = IF call.client[c] = "checkBlocked" /\ ~thrown
                  THEN SubStep(call, c, "CheckError", "checkCount")
                  ELSE SubStep(call, c, "CheckError", "insert")
    /\ UNCHANGED appVars

\* The INSERT runs upstream: the policy is evaluated over the rows committed.
InsertChecked(c) ==
    /\ call.client[c] = "insert"
    /\ call' = IF submissions_public_insert(call)
               THEN SubStep(call, c, "InsertAccepted", "commit")
               ELSE SubStep(call, c, "InsertRejected", "idle")
    /\ UNCHANGED appVars

\* The INSERT commits: the row, stamped submission_date = now, is visible.
InsertCommits(c) ==
    /\ call.client[c] = "commit"
    /\ call' = [SubStep(call, c, "InsertCommits", "upsert")
                   EXCEPT !.submissions = Append(@, call.clock)]
    /\ UNCHANGED appVars

\* submitForm: the upsert of the rate limit counter.
UpsertResponse(c) ==
    /\ call.client[c] = "upsert"
    /\ call' = [SubStep(call, c, "UpsertResponse", "idle")
                   EXCEPT !.rateLimit = UpsertRateLimit(call)]
    /\ UNCHANGED appVars

\* An administrator blocks the email for a window.
AdminBlock ==
    /\ call.pc = "submissions"
    /\ IF call.rateLimit = NoRow THEN TRUE ELSE call.rateLimit.blocked_until = Null
    /\ call' = [call EXCEPT
                   !.rateLimit = [submission_count |->
                                      IF @ = NoRow THEN 1 ELSE @.submission_count,
                                  last_submission |->
                                      IF @ = NoRow THEN call.clock ELSE @.last_submission,
                                  blocked_until |-> Num(call.clock + SEVEN_DAYS)],
                   !.last = [name |-> "AdminBlock", client |-> 0]]
    /\ UNCHANGED appVars

WeekPasses ==
    /\ call.pc = "submissions"
    /\ call.clock < SEVEN_DAYS * (1 + MaxWeeks)
    /\ call' = [call EXCEPT !.clock = @ + SEVEN_DAYS,
                            !.last = [name |-> "WeekPasses", client |-> 0]]
    /\ UNCHANGED appVars

SubmitNext ==
    \/ \E c \in Clients : submitForm(c)
    \/ \E c \in Clients : BlockedResponse(c)
    \/ \E c \in Clients : CountResponse(c)
    \/ \E c \in Clients : CheckError(c)
    \/ \E c \in Clients : InsertChecked(c)
    \/ \E c \in Clients : InsertCommits(c)
    \/ \E c \in Clients : UpsertResponse(c)
    \/ AdminBlock
    \/ WeekPasses

SpecSubmit == SubmitInit /\ [][SubmitNext]_vars

(***************************************************************************)
(* Startup: config.js validates the connection parameters and creates      *)
(* window.supabaseClient only when they are set and are not the            *)
(* placeholders; init() then runs with or without a client.                *)
(***************************************************************************)
UrlValues == {"", "YOUR_SUPABASE_URL", "https://project.supabase.co"}
KeyValues == {"", "YOUR_SUPABASE_ANON_KEY", "anon-key"}

validateConfig(SUPABASE_URL, SUPABASE_ANON_KEY) ==
    /\ SUPABASE_URL # ""
    /\ SUPABASE_ANON_KEY # ""
    /\ SUPABASE_URL # "YOUR_SUPABASE_URL"
    /\ SUPABASE_ANON_KEY # "YOUR_SUPABASE_ANON_KEY"

StartupInit ==
    /\ AppInit
    /\ \E url \in UrlValues : \E key \in KeyValues :
          call = [pc |-> "startup", SUPABASE_URL |-> url, SUPABASE_ANON_KEY |-> key,
                  supabaseClient |-> validateConfig(url, key), initialised |-> FALSE]

\* init() without a client: checkDatabaseConnection and loadFilterOptions
\* both show the errors, call disableFilterDropdowns and return.
InitWithoutClient ==
    /\ ~call.supabaseClient
    /\ tasks[INIT].pc = "checkDb"
    /\ selDisabled' = disableFilterDropdowns.disabled
    /\ selErrorState' = disableFilterDropdowns.errorState
    /\ filterErrorShown' = TRUE
    /\ tasks' = [tasks EXCEPT ![INIT] = IdleTask]
    /\ lastAction' = Step("InitWithoutClient", INIT, FALSE)
    /\ call' = [call EXCEPT !.initialised = TRUE]
    /\ UNCHANGED <<now, table, selValue, selOptions, filterOptions, filterOptionsCache,
                   filterOptionsCacheTimestamp, isUpdatingFilters, events>>

\* clearFilters without a client: the values are cleared, the cache is
\* invalidated and loadFilterOptions returns at its client check.
ClearFiltersWithoutClient ==
    /\ ~call.supabaseClient
    /\ call.initialised
    /\ events < MaxEvents
    /\ events' = events + 1
    /\ selValue' = [d \in Dims |-> <<>>]
    /\ filterOptionsCache' = invalidateFilterCache.cache
    /\ filterOptionsCacheTimestamp' = invalidateFilterCache.timestamp
    /\ selDisabled' = disableFilterDropdowns.disabled
    /\ selErrorState' = disableFilterDropdowns.errorState
    /\ filterErrorShown' = TRUE
    /\ lastAction' = Step("ClearFilters", INIT, FALSE)
    /\ UNCHANGED <<now, table, selOptions, filterOptions, isUpdatingFilters, tasks, call>>

StartupNext ==
    \/ call.supabaseClient /\ Next
    \/ InitWithoutClient
    \/ ClearFiltersWithoutClient

SpecStartup == StartupInit /\ [][StartupNext]_vars

(***************************************************************************)
(* The query builder: queryConditions is a list of conditions and of       *)
(* groups of conditions, each with the connector (logic) that precedes it. *)
(* applyQueryConditions turns the list into the filters of one upstream    *)
(* query, which returns the rows that pass every filter.                   *)
(***************************************************************************)
\* Items of a list (conditions and groups of queryConditions, conditions of
\* a group).
MaxConditions == 2

Condition(field, operator, value) ==
    [isGroup |-> FALSE, field |-> field, operator |-> operator, value |-> value]

Group(conditions) == [isGroup |-> TRUE, conditions |-> conditions]

NullOperators == {"is_null", "is_not_null"}

Lower(c) == IF IsUpper(c) THEN LowerLetters[IndexIn(UpperLetters, c)] ELSE c

LowerCase(chars) == [i \in 1..Len(chars) |-> Lower(chars[i])]

StartsWith(chars, prefix) ==
    Len(prefix) <= Len(chars) /\ SubSeq(chars, 1, Len(prefix)) = prefix

EndsWith(chars, suffix) ==
    /\ Len(suffix) <= Len(chars)
    /\ SubSeq(chars, Len(chars) - Len(suffix) + 1, Len(chars)) = suffix

Contains(chars, part) ==
    \E i \in 1..(Len(chars) + 1) :
        i + Len(part) - 1 <= Len(chars) /\ SubSeq(chars, i, i + Len(part) - 1) = part

\* The order of a cell and a filter value: numbers for a number column,
\* collation order for a text column.
CompareCell(cell, value) ==
    IF typeof(cell) = "number" THEN cell.n - CharsToNat(value)
    ELSE localeCompare(cell.s, value)

\* The filter of one condition, as upstream evaluates it on a row: a
\* comparison with a null cell is not true.
ConditionHolds(row, cond) ==
    LET cell == row[cond.field]
        text == LowerCase(String(cell))
        value == cond.value
    IN CASE cond.operator = "is_null" -> cell = Null
         [] cond.operator = "is_not_null" -> cell # Null
         [] cell = Null -> FALSE
         [] cond.operator = "eq" -> String(cell) = value
         [] cond.operator = "neq" -> String(cell) # value
         [] cond.operator = "gt" -> CompareCell(cell, value) > 0
         [] cond.operator = "gte" -> CompareCell(cell, value) >= 0
         [] cond.operator = "lt" -> CompareCell(cell, value) < 0
         [] cond.operator = "lte" -> CompareCell(cell, value) <= 0
         [] cond.operator = "ilike" -> Contains(text, LowerCase(value))
         [] cond.operator = "not_ilike" -> ~Contains(text, LowerCase(value))
         [] cond.operator = "starts" -> StartsWith(text, LowerCase(value))
         [] cond.operator = "ends" -> EndsWith(text, LowerCase(value))

\* A condition is complete: it needs no value, or has one.
IsValidCondition(cond) == cond.operator \in NullOperators \/ cond.value # <<>>

\* getValidConditions
RECURSIVE getValidConditions(_)
getValidConditions(conditions) ==
    IF conditions = <<>> THEN <<>>
    ELSE LET item == Head(conditions)
         IN (IF item.isGroup THEN getValidConditions(item.conditions)
             ELSE IF IsValidCondition(item) THEN <<item>> ELSE <<>>)
            \o getValidConditions(Tail(conditions))

\* applySingleCondition: the query with the filter of cond added, or the
\* query as it is when cond is incomplete.  A query is the list of its
\* filters: [or |-> FALSE, conds |-> <<c>>] is the filter of c,
\* [or |-> TRUE, conds |-> cs] is query.or() over the conditions cs.
applySingleCondition(query, cond) ==
    IF ~IsValidCondition(cond) THEN query
    ELSE Append(query, [or |-> FALSE, conds |-> <<cond>>])

RECURSIVE ApplyEach(_, _)
ApplyEach(query, conditions) ==
    IF conditions = <<>> THEN query
    ELSE ApplyEach(applySingleCondition(query, Head(conditions)), Tail(conditions))

\* applyQueryConditions, from item number index on.
RECURSIVE ApplyFrom(_, _, _)
ApplyFrom(query, conditions, index) ==
    IF index > Len(conditions) THEN query
    ELSE LET item == conditions[index]
             next == IF item.isGroup
                     THEN IF Len(item.conditions) = 0 THEN query
                          ELSE IF item.logic = "OR" /\ index > 1
                          THEN Append(query, [or |-> TRUE, conds |-> item.conditions])
                          ELSE ApplyEach(query, item.conditions)
                     ELSE applySingleCondition(query, item)
         IN ApplyFrom(next, conditions, index + 1)

applyQueryConditions(query, conditions) == ApplyFrom(query, conditions, 1)

\* The upstream query: a row is returned when every filter holds, a filter
\* of query.or() holding when one of its conditions does.
FilterHolds(row, filter) ==
    IF filter.or
    THEN \E i \in 1..Len(filter.conds) : ConditionHolds(row, filter.conds[i])
    ELSE ConditionHolds(row, filter.conds[1])

RECURSIVE SelectRows(_, _)
SelectRows(tbl, query) ==
    IF tbl = <<>> THEN <<>>
    ELSE (IF \A i \in 1..Len(query) : FilterHolds(Head(tbl), query[i])
          THEN <<Head(tbl)>> ELSE <<>>) \o SelectRows(Tail(tbl), query)

\* buildQueryString: the parts shown in the preview, each with the
\* connector shown before it: a complete condition, or a group whose own
\* preview is not empty.
RECURSIVE PreviewParts(_)
PreviewParts(conditions) ==
    IF conditions = <<>> THEN <<>>
    ELSE LET item == Head(conditions)
             shown == IF item.isGroup THEN PreviewParts(item.conditions) # <<>>
                      ELSE IsValidCondition(item)
         IN (IF shown THEN <<item>> ELSE <<>>) \o PreviewParts(Tail(conditions))

\* The conditions and groups the user composes.
SampleConditions ==
    { Condition("year", "eq", <<"1", "9", "9", "9">>),
      Condition("year", "gt", <<"1", "9", "9", "9">>),
      Condition("year", "neq", <<"2", "0", "2", "1">>),
      Condition("location_name", "eq", <<"A">>),
      Condition("location_name", "ilike", <<"v">>),
      Condition("location_name", "eq", <<>>),
      Condition("flood_event_name", "is_null", <<>>),
      Condition("flood_event_name", "starts", <<"d">>) }

Connectors == {"AND", "OR"}

\* Lists of 1..MaxConditions of the items: the first item keeps the
\* connector AND it is created with.
ListsOf(items) ==
    UNION {{list \in [1..n -> [logic : Connectors, item : items]] : list[1].logic = "AND"} :
              n \in 1..MaxConditions}

WithLogic(list) ==
    [i \in 1..Len(list) |-> [k \in DOMAIN list[i].item \cup {"logic"} |->
                                 IF k = "logic" THEN list[i].logic ELSE list[i].item[k]]]

ConditionLists == {WithLogic(list) : list \in ListsOf(SampleConditions)}

QueryItems == SampleConditions \cup {Group(conditions) : conditions \in ConditionLists}

QueryConditionLists == {WithLogic(list) : list \in ListsOf(QueryItems)}

QueryInit ==
    /\ AppInit
    /\ \E queryConditions \in QueryConditionLists :
          call = [pc |-> "editing", queryConditions |-> queryConditions, data |-> <<>>]

\* applySqlFilter over the floods table Table2, all pages fetched.
ApplyQuery ==
    /\ call.pc = "editing"
    /\ call' = IF Len(getValidConditions(call.queryConditions)) = 0
               THEN [call EXCEPT !.pc = "refused"]
               ELSE [call EXCEPT !.pc = "applied",
                                 !.data = SelectRows(Table2,
                                              applyQueryConditions(<<>>, call.queryConditions))]
    /\ UNCHANGED appVars

SpecQuery == QueryInit /\ [][ApplyQuery]_vars

(***************************************************************************)
(* The error banner: showError writes the message into the one element     *)
(* #error-banner, shows it, and starts a timer that hides the element;     *)
(* no timer is ever cleared.  Time is counted in seconds.                  *)
(***************************************************************************)
MaxNotices == 2
MaxClock == 12

\* setTimeout(..., 10000)
AUTO_DISMISS_SECONDS == 10

BannerInit ==
    /\ AppInit
    /\ call = [pc |-> "banner", clock |-> 0,
               message |-> 0,        \* the notice in the banner, 0: no banner yet
               hidden |-> TRUE,      \* class hidden (or no banner)
               shownAt |-> 0,        \* when the notice in the banner was shown
               dismissed |-> FALSE,  \* the user closed the notice in the banner
               timers |-> {}]        \* due times of the pending timers

showError ==
    /\ call.pc = "banner"
    /\ call.message < MaxNotices
    /\ call' = [call EXCEPT !.message = call.message + 1,
                            !.hidden = FALSE,
                            !.shownAt = call.clock,
                            !.dismissed = FALSE,
                            !.timers = call.timers \cup {call.clock + AUTO_DISMISS_SECONDS}]
    /\ UNCHANGED appVars

\* A click on the close button of the banner.
CloseClick ==
    /\ call.pc = "banner"
    /\ ~call.hidden
    /\ call' = [call EXCEPT !.hidden = TRUE, !.dismissed = TRUE]
    /\ UNCHANGED appVars

\* The callback of a timer that is due.
TimerFires ==
    /\ call.pc = "banner"
    /\ \E due \in call.timers :
          /\ due <= call.clock
          /\ call' = [call EXCEPT !.hidden = TRUE, !.timers = call.timers \ {due}]
    /\ UNCHANGED appVars

\* A second passes; a timer that is due runs first.
SecondPasses ==
    /\ call.pc = "banner"
    /\ call.clock < MaxClock
    /\ \A due \in call.timers : due > call.clock
    /\ call' = [call EXCEPT !.clock = call.clock + 1]
    /\ UNCHANGED appVars

BannerNext == showError \/ CloseClick \/ TimerFires \/ SecondPasses

SpecBanner == BannerInit /\ [][BannerNext]_vars

(***************************************************************************)
(* The map data: loadFloodData (dropdown filters) and applySqlFilter       *)
(* (query builder) fetch the rows to show, page by page, and replace       *)
(* currentData and the markers when the fetch has succeeded.  Every row    *)
(* of the table has coordinates.  call.dom is the filters object that      *)
(* applyFilters builds from the dropdowns as they are.  init() ends with   *)
(* loadFloodData(); a dropdown change runs handleFilterChange, which waits *)
(* for loadFilterOptions (which reports its own failures and never throws) *)
(* and then calls applyFilters.                                            *)
(***************************************************************************)
\* Calls of loadFloodData and applySqlFilter started in a behaviour.
MaxLoads == 3

\* null
NoSqlFilter == <<>>

\* The list of the one condition cond.
OneCondition(cond) == WithLogic(<<[logic |-> "AND", item |-> cond]>>)

\* this.queryConditions after clearSqlFilter: one empty condition.
EmptyQuery == OneCondition(Condition("year", "eq", <<>>))

\* What the user composes in the query builder.
MapQueries ==
    { EmptyQuery,
      OneCondition(Condition("year", "gt", <<"1", "9", "0", "0">>)),
      OneCondition(Condition("flood_event_name", "is_not_null", <<>>)) }

\* The filters object applyFilters passes to loadFloodData.
MapFilters == { <<>>, <<Condition("year", "eq", <<"1", "9", "9", "9">>)>> }

\* baseQuery of loadFloodData.
loadFloodDataQuery(filters) ==
    [i \in 1..Len(filters) |-> [or |-> FALSE, conds |-> <<filters[i]>>]]

\* A loop that goes on after a short page, until a page is empty.
M_FetchFromQueryStepUntilEmpty(f, data) ==
    IF Len(data) > 0
    THEN [f EXCEPT !.allRecords = @ \o data, !.offset = @ + Len(data)]
    ELSE [f EXCEPT !.finished = TRUE]

\* One turn of the loop of _fetchAllRecordsFromQuery on the page data.
FetchFromQueryStep(f, data) ==
    IF Len(data) > 0
    THEN [f EXCEPT !.allRecords = @ \o data,
                   !.offset = @ + Len(data),
                   !.finished = Len(data) # batchSize]
    ELSE [f EXCEPT !.finished = TRUE]

Idle == [pc |-> "idle"]

Awaiting(query) == [pc |-> "awaiting", query |-> query, f |-> FetchInit]

\* The page a pending fetch has requested.
Page(fetch) ==
    range(SelectRows(table, fetch.query), fetch.f.offset, fetch.f.offset + batchSize - 1)

\* updateMap: the markers are those of currentData.
updateMap(c) == [c EXCEPT !.markers = c.currentData]

\* A loadFloodData without its finally block.
M_loadFloodDataFailedStaysLoading(c) ==
    [c EXCEPT !.load = [pc |-> "idle"],
              !.last = "LoadFailed", !.failed = @ \cup {"load"},
              !.partial = Len(c.load.f.allRecords)]

\* A catch block that blanks the map.
M_loadFloodDataFailedClears(c) ==
    updateMap([c EXCEPT !.load = Idle, !.isLoading = FALSE, !.currentData = <<>>,
                        !.last = "LoadFailed", !.failed = @ \cup {"load"},
                        !.partial = Len(c.load.f.allRecords)])

\* loadFloodData, catch and finally: the error is reported.
loadFloodDataFailed(c) ==
    [c EXCEPT !.load = Idle, !.isLoading = FALSE,
              !.last = "LoadFailed", !.failed = @ \cup {"load"},
              !.partial = Len(c.load.f.allRecords)]

\* applySqlFilter, catch and finally.
applySqlFilterFailed(c) ==
    [c EXCEPT !.sql = Idle,
              !.last = "SqlFailed", !.failed = @ \cup {"sql"},
              !.partial = Len(c.sql.f.allRecords)]

\* loadFloodData up to its first await.
loadFloodDataStarts(c, filters) ==
    IF c.isLoading THEN c
    ELSE [c EXCEPT !.isLoading = TRUE, !.load = Awaiting(loadFloodDataQuery(filters))]

MapInit ==
    /\ AppInit
    /\ call = [pc |-> "map", currentData |-> <<>>, markers |-> <<>>,
               activeSqlFilter |-> NoSqlFilter, queryConditions |-> EmptyQuery,
               isLoading |-> FALSE, load |-> Idle, sql |-> Idle,
               dom |-> <<>>, isUpdatingFilters |-> FALSE,
               options |-> "idle",   \* loadFilterOptions of handleFilterChange
               initPending |-> TRUE, \* init() has not reached loadFloodData()
               dropped |-> FALSE,    \* a dropdown change met the guard and
                                     \* applyFilters has not run since
               loads |-> 0,          \* calls started so far
               last |-> "Init",      \* the last step
               failed |-> {},        \* the operations that have failed
               partial |-> 0]        \* rows the last failed fetch had received

\* init() reaches its last step, loadFloodData() without filters.
InitLoads ==
    /\ call.pc = "map"
    /\ call.initPending
    /\ call' = [loadFloodDataStarts(call, <<>>) EXCEPT !.initPending = FALSE,
                                                       !.last = "InitLoads"]
    /\ UNCHANGED appVars

\* The user changes the dropdowns to filters: handleFilterChange returns at
\* once when a run is in flight, and starts loadFilterOptions otherwise.
FilterChanged(filters) ==
    /\ call.pc = "map"
    /\ call.loads < MaxLoads
    /\ filters # call.dom
    /\ call' = IF call.isUpdatingFilters
               THEN [call EXCEPT !.dom = filters, !.dropped = TRUE,
                                 !.loads = @ + 1, !.last = "FilterChangeDropped"]
               ELSE [call EXCEPT !.dom = filters, !.isUpdatingFilters = TRUE,
                                 !.options = "awaiting",
                                 !.loads = @ + 1, !.last = "FilterChange"]
    /\ UNCHANGED appVars

\* loadFilterOptions has settled: handleFilterChange calls applyFilters,
\* which runs up to the await of loadFloodData, and resets its guard.
OptionsSettled ==
    /\ call.pc = "map"
    /\ call.options = "awaiting"
    /\ call' = [loadFloodDataStarts(call, call.dom)
                   EXCEPT !.options = "idle", !.isUpdatingFilters = FALSE,
                          !.dropped = FALSE, !.last = "OptionsSettled"]
    /\ UNCHANGED appVars

\* applyFilters called with the dropdowns as they are, or by
\* clearIndividualFilter after it has emptied a dropdown.
applyFilters(filters) ==
    /\ call.pc = "map"
    /\ call.loads < MaxLoads
    /\ filters = call.dom \/ filters = <<>>
    /\ call' = [loadFloodDataStarts(call, filters)
                   EXCEPT !.dom = filters, !.dropped = FALSE,
                          !.loads = @ + 1, !.last = "ApplyFilters"]
    /\ UNCHANGED appVars

LoadPageResponse ==
    /\ call.pc = "map"
    /\ call.load.pc = "awaiting"
    /\ LET f == FetchStep(call.load.f, Page(call.load))
       IN call' = IF f.finished
                  THEN updateMap([call EXCEPT !.currentData = f.allRecords,
                                              !.load = Idle, !.isLoading = FALSE,
                                              !.last = "LoadSucceeded"])
                  ELSE [call EXCEPT !.load.f = f, !.last = "LoadPage"]
    /\ UNCHANGED appVars

LoadPageError ==
    /\ call.pc = "map"
    /\ call.load.pc = "awaiting"
    /\ call' = loadFloodDataFailed(call)
    /\ UNCHANGED appVars

\* The user edits the conditions of the query builder.
updateQueryCondition(queryConditions) ==
    /\ call.pc = "map"
    /\ call.queryConditions # queryConditions
    /\ call.loads < MaxLoads
    /\ call' = [call EXCEPT !.queryConditions = queryConditions, !.last = "Edit"]
    /\ UNCHANGED appVars

\* applySqlFilter up to its first await; one call at a time.
applySqlFilter ==
    /\ call.pc = "map"
    /\ call.sql.pc = "idle"
    /\ call.loads < MaxLoads
    /\ call' = IF Len(getValidConditions(call.queryConditions)) = 0
               THEN [call EXCEPT !.loads = @ + 1, !.last = "SqlRefused"]
               ELSE [call EXCEPT !.loads = @ + 1, !.last = "ApplySqlFilter",
                                 !.sql = Awaiting(applyQueryConditions(<<>>,
                                                      call.queryConditions))]
    /\ UNCHANGED appVars

SqlPageResponse ==
    /\ call.pc = "map"
    /\ call.sql.pc = "awaiting"
    /\ LET f == FetchFromQueryStep(call.sql.f, Page(call.sql))
       IN call' = IF f.finished
                  THEN updateMap([call EXCEPT !.activeSqlFilter = call.queryConditions,
                                              !.currentData = f.allRecords,
                                              !.sql = Idle, !.last = "SqlSucceeded"])
                  ELSE [call EXCEPT !.sql.f = f, !.last = "SqlPage"]
    /\ UNCHANGED appVars

SqlPageError ==
    /\ call.pc = "map"
    /\ call.sql.pc = "awaiting"
    /\ call' = applySqlFilterFailed(call)
    /\ UNCHANGED appVars

\* clearSqlFilter(true): the builder is reset and the dropdown filters are
\* applied again.
clearSqlFilter ==
    /\ call.pc = "map"
    /\ call.activeSqlFilter # NoSqlFilter
    /\ call.loads < MaxLoads
    /\ call' = [loadFloodDataStarts([call EXCEPT !.queryConditions = EmptyQuery,
                                                 !.activeSqlFilter = NoSqlFilter],
                                    call.dom)
                   EXCEPT !.dropped = FALSE,
                          !.loads = @ + 1, !.last = "ClearSqlFilter"]
    /\ UNCHANGED appVars

MapNext ==
    \/ InitLoads
    \/ \E filters \in MapFilters : FilterChanged(filters)
    \/ OptionsSettled
    \/ \E filters \in MapFilters : applyFilters(filters)
    \/ LoadPageResponse
    \/ LoadPageError
    \/ \E queryConditions \in MapQueries : updateQueryCondition(queryConditions)
    \/ applySqlFilter
    \/ SqlPageResponse
    \/ SqlPageError
    \/ clearSqlFilter

SpecMap == MapInit /\ [][MapNext]_vars

\* The steps that are not the user's: init() going on, and the answer (a
\* result or an error) to a pending request.
MapResponses ==
    \/ InitLoads
    \/ OptionsSettled
    \/ LoadPageResponse
    \/ LoadPageError
    \/ SqlPageResponse
    \/ SqlPageError

\* While requests are pending, one of them is eventually answered.
SpecMapFair == SpecMap /\ WF_vars(MapResponses)

(***************************************************************************)
(* _fetchAllRecords and _fetchAllRecordsFromQuery called on the same       *)
(* query: the result is call.result for both, and the request for page     *)
(* number call.failAt (if any) fails for both.                             *)
(***************************************************************************)
\* A call of one of the two functions: its loop state, the ranges it has
\* requested, and how it ended (error: the page whose request failed).
FetcherInit ==
    [f |-> FetchInit, requests |-> <<Request(0)>>, pc |-> "awaiting", error |-> 0]

BothInit ==
    /\ AppInit
    /\ \E result \in FetchResults, failAt \in 0..(MaxRows \div batchSize + 1) :
          call = [pc |-> "both", result |-> result, failAt |-> failAt,
                  allRecords |-> FetcherInit, fromQuery |-> FetcherInit]

\* The outstanding request of the call c is answered with the loop step.
Answered(c, step) ==
    [c EXCEPT !.f = step,
              !.pc = IF step.finished THEN "returned" ELSE "awaiting",
              !.requests = IF step.finished THEN @ ELSE Append(@, Request(step.offset))]

\* if (error) throw error
Thrown(c) == [c EXCEPT !.pc = "thrown", !.error = Len(c.requests)]

PageOf(c) == range(call.result, c.f.offset, c.f.offset + batchSize - 1)

AllRecordsStep ==
    /\ call.pc = "both"
    /\ call.allRecords.pc = "awaiting"
    /\ LET c == call.allRecords
       IN call' = [call EXCEPT !.allRecords =
                       IF Len(c.requests) = call.failAt THEN Thrown(c)
                       ELSE Answered(c, FetchStep(c.f, PageOf(c)))]
    /\ UNCHANGED appVars

FromQueryStep ==
    /\ call.pc = "both"
    /\ call.fromQuery.pc = "awaiting"
    /\ LET c == call.fromQuery
       IN call' = [call EXCEPT !.fromQuery =
                       IF Len(c.requests) = call.failAt THEN Thrown(c)
                       ELSE Answered(c, FetchFromQueryStep(c.f, PageOf(c)))]
    /\ UNCHANGED appVars

BothNext == AllRecordsStep \/ FromQueryStep

SpecFetchBoth == BothInit /\ [][BothNext]_vars

(***************************************************************************)
(* The submissions list of the admin page (the public list is the same     *)
(* without approve): currentPage and totalItems, the status filter, and    *)
(* loadSubmissions, which awaits the page of rows and then the count of    *)
(* the rows that match the filter as it is then.                           *)
(***************************************************************************)
\* Rows of the submissions table.
MaxSubmissions == 3
\* Clicks of a behaviour.
MaxClicks == 3
\* loadSubmissions calls in flight at once.
MaxListLoads == 2
\* this.itemsPerPage
itemsPerPage == 2

ListLoads == 1..MaxListLoads

\* Math.ceil(totalItems / itemsPerPage)
TotalPages(totalItems) == (totalItems + itemsPerPage - 1) \div itemsPerPage

\* The ids of the rows that match the status filter ("": every status).
Matching(rows, statusFilter) ==
    SelectSeq([i \in 1..Len(rows) |-> i],
              LAMBDA i : statusFilter = "" \/ rows[i] = statusFilter)

ListInit ==
    /\ AppInit
    /\ \E rows \in [1..MaxSubmissions -> {"pending", "approved"}],
          statusFilter \in {"", "pending"} :
          call = [pc |-> "list", rows |-> rows, statusFilter |-> statusFilter,
                  currentPage |-> 1, totalItems |-> 0, submissions |-> <<>>,
                  loads |-> [t \in ListLoads |->
                                IF t = 1 THEN [pc |-> "data", offset |-> 0]
                                ELSE [pc |-> "idle"]],
                  clicks |-> 0, last |-> "Init"]

\* loadSubmissions up to its first await, in a free slot: the data query for
\* the current page is sent.
loadSubmissions(c, name) ==
    LET t == CHOOSE t \in ListLoads : c.loads[t].pc = "idle"
    IN [c EXCEPT !.loads[t] = [pc |-> "data",
                               offset |-> (c.currentPage - 1) * itemsPerPage],
                 !.clicks = @ + 1, !.last = name]

CanClick ==
    /\ call.pc = "list"
    /\ call.clicks < MaxClicks
    /\ \E t \in ListLoads : call.loads[t].pc = "idle"

StatusFilterChange(v) ==
    /\ CanClick
    /\ v # call.statusFilter
    /\ call' = loadSubmissions([call EXCEPT !.statusFilter = v, !.currentPage = 1],
                               "FilterChange")
    /\ UNCHANGED appVars

PrevPage ==
    /\ CanClick
    /\ call.currentPage > 1
    /\ call' = loadSubmissions([call EXCEPT !.currentPage = @ - 1], "PrevPage")
    /\ UNCHANGED appVars

NextPage ==
    /\ CanClick
    /\ call.currentPage < TotalPages(call.totalItems)
    /\ call' = loadSubmissions([call EXCEPT !.currentPage = @ + 1], "NextPage")
    /\ UNCHANGED appVars

\* approveSubmission of a row shown, confirmed and updated upstream; the
\* list is then loaded again.
approveSubmission(id) ==
    /\ CanClick
    /\ InSeq(call.submissions, id)
    /\ call.rows[id] = "pending"
    /\ call' = loadSubmissions([call EXCEPT !.rows[id] = "approved"], "Approve")
    /\ UNCHANGED appVars

\* The page of rows arrives (none when the range starts past the last
\* row); the count query is sent with the filter as it is now.
ListDataResponse(t) ==
    /\ call.pc = "list"
    /\ call.loads[t].pc = "data"
    /\ LET matching == Matching(call.rows, call.statusFilter)
           offset == call.loads[t].offset
       IN call' = [call EXCEPT
                      !.loads[t] = [pc |-> "count",
                                    data |-> range(matching, offset,
                                                   offset + itemsPerPage - 1)],
                      !.last = "Data"]
    /\ UNCHANGED appVars

\* The count arrives: the rows and the total are stored and the pagination
\* controls updated.
ListCountResponse(t) ==
    /\ call.pc = "list"
    /\ call.loads[t].pc = "count"
    /\ call' = [call EXCEPT
                   !.submissions = call.loads[t].data,
                   !.totalItems = Len(Matching(call.rows, call.statusFilter)),
                   !.loads[t] = [pc |-> "idle"],
                   !.last = "Loaded"]
    /\ UNCHANGED appVars

\* A query of the load fails: the catch block shows the error row.
ListError(t) ==
    /\ call.pc = "list"
    /\ call.loads[t].pc \in {"data", "count"}
    /\ call' = [call EXCEPT !.loads[t] = [pc |-> "idle"], !.last = "LoadError"]
    /\ UNCHANGED appVars

ListNext ==
    \/ \E v \in {"", "pending"} : StatusFilterChange(v)
    \/ PrevPage
    \/ NextPage
    \/ \E id \in 1..MaxSubmissions : approveSubmission(id)
    \/ \E t \in ListLoads : ListDataResponse(t)
    \/ \E t \in ListLoads : ListCountResponse(t)
    \/ \E t \in ListLoads : ListError(t)

SpecList == ListInit /\ [][ListNext]_vars

(***************************************************************************)
(* SelectSearchEnhancer: type-to-search on the enhanced selects.  One      *)
(* enhancer serves every select: searchTerm, originalSelection,            *)
(* activeSelect and the overlay are shared.  Indexes count from 1 here     *)
(* (option 1 is the "All" option); the timers fire in any order.           *)
(***************************************************************************)
\* Key presses and focus changes of a behaviour.
MaxKeys == 4
\* Characters of a search term.
MaxTerm == 2
\* Enhanced selects on the page.
MaxSelects == 2

Selects == 1..MaxSelects

\* No select, no index.
None == 0

\* The option texts of a select: the first is the "All" option.
OptionTexts == << <<>>, <<"a", "b">>, <<"b">>, <<"b", "a">> >>

\* getMatchingOptions: the indexes of the options whose text contains the
\* term, the "All" option left out.
getMatchingOptions(searchTerm) ==
    SelectSeq([i \in 1..Len(OptionTexts) |-> i],
              LAMBDA i : i > 1 /\ Contains(LowerCase(OptionTexts[i]), LowerCase(searchTerm)))

\* filterAndNavigate on select sel.
filterAndNavigate(c, sel) ==
    LET matchingOptions == getMatchingOptions(c.searchTerm)
    IN IF Len(matchingOptions) > 0
       THEN [c EXCEPT !.selectedIndex[sel] = matchingOptions[1]]
       ELSE c

\* hideOverlay: the term is cleared by a timer started here.
hideOverlay(c) ==
    [c EXCEPT !.overlayActive = FALSE, !.clearPending = TRUE,
              !.activeSelect = None, !.originalSelection = None]

clearSearchTerm(c) == [c EXCEPT !.searchTerm = <<>>, !.searchTimeout = FALSE]

resetSearchTimeout(c) == [c EXCEPT !.searchTimeout = TRUE]

restoreOriginalSelection(c, sel) ==
    IF c.originalSelection # None
    THEN [c EXCEPT !.selectedIndex[sel] = c.originalSelection,
                   !.originalSelection = None]
    ELSE c

\* handleGlobalEscape, run after the handler of the select.
handleGlobalEscape(c) ==
    IF c.overlayActive /\ c.activeSelect # None
    THEN hideOverlay(restoreOriginalSelection(c, c.activeSelect))
    ELSE c

Key(c, name) == [c EXCEPT !.keys = @ + 1, !.last = name]

SearchInit ==
    /\ AppInit
    /\ \E selectedIndex \in [Selects -> 1..Len(OptionTexts)] :
          call = [pc |-> "search", selectedIndex |-> selectedIndex,
                  focus |-> 1, searchTerm |-> <<>>, originalSelection |-> None,
                  activeSelect |-> 1, overlayActive |-> FALSE,
                  clearPending |-> FALSE,   \* the timer of hideOverlay
                  searchTimeout |-> FALSE,  \* this.searchTimeout is pending
                  blurPending |-> {},       \* the timers of handleBlur
                  start |-> selectedIndex,  \* the indexes when the first
                                            \* character of the term was typed
                  keys |-> 0, last |-> "Init"]

CanPress == call.pc = "search" /\ call.keys < MaxKeys

\* handleKeyDown, a printable key on the select that has the focus.
TypeCharacter(ch) ==
    /\ CanPress
    /\ Len(call.searchTerm) < MaxTerm
    /\ LET sel == call.focus
           first == Len(call.searchTerm) = 0
           c1 == [call EXCEPT
                     !.originalSelection = IF first THEN call.selectedIndex[sel] ELSE @,
                     !.start = IF first THEN call.selectedIndex ELSE @,
                     !.searchTerm = Append(@, ch),
                     !.overlayActive = TRUE,
                     !.activeSelect = sel]
       IN call' = Key(resetSearchTimeout(filterAndNavigate(c1, sel)), "Type")
    /\ UNCHANGED appVars

PressEnter ==
    /\ CanPress
    /\ call.searchTerm # <<>>
    /\ call' = Key(hideOverlay(call), "Enter")
    /\ UNCHANGED appVars

\* Escape: the handler of the select, then the handler of the document.
PressEscape ==
    /\ CanPress
    /\ LET sel == call.focus
           c1 == IF call.searchTerm # <<>>
                 THEN hideOverlay(restoreOriginalSelection(call, sel))
                 ELSE call
       IN call' = Key(handleGlobalEscape(c1),
                      IF call.searchTerm # <<>> THEN "Escape" ELSE "EscapeNoTerm")
    /\ UNCHANGED appVars

PressBackspace ==
    /\ CanPress
    /\ call.searchTerm # <<>>
    /\ LET c1 == [call EXCEPT !.searchTerm = SubSeq(@, 1, Len(@) - 1)]
           c2 == IF Len(c1.searchTerm) = 0 THEN hideOverlay(c1)
                 ELSE filterAndNavigate(c1, call.focus)
       IN call' = Key(resetSearchTimeout(c2), "Backspace")
    /\ UNCHANGED appVars

\* ArrowDown: the select moves to its next option.
PressArrowDown ==
    /\ CanPress
    /\ call.selectedIndex[call.focus] < Len(OptionTexts)
    /\ LET c1 == [call EXCEPT !.selectedIndex[call.focus] = @ + 1]
       IN call' = Key(IF call.searchTerm # <<>> THEN resetSearchTimeout(c1) ELSE c1,
                      "ArrowDown")
    /\ UNCHANGED appVars

\* The focus moves to select sel: handleBlur of the one left starts its
\* timer, handleFocus records the new one.
MoveFocus(sel) ==
    /\ CanPress
    /\ sel # call.focus
    /\ call' = Key([call EXCEPT !.blurPending = @ \cup {call.focus},
                                !.focus = sel, !.activeSelect = sel], "Focus")
    /\ UNCHANGED appVars

\* The timer of handleBlur for select sel.
BlurTimer(sel) ==
    /\ call.pc = "search"
    /\ sel \in call.blurPending
    /\ LET c1 == [call EXCEPT !.blurPending = @ \ {sel}, !.last = "BlurTimer"]
       IN call' = IF call.activeSelect = sel THEN hideOverlay(c1) ELSE c1
    /\ UNCHANGED appVars

\* The timer of hideOverlay.
ClearTimer ==
    /\ call.pc = "search"
    /\ call.clearPending
    /\ call' = clearSearchTerm([call EXCEPT !.clearPending = FALSE, !.last = "ClearTimer"])
    /\ UNCHANGED appVars

\* The inactivity timer of resetSearchTimeout.
SearchTimer ==
    /\ call.pc = "search"
    /\ call.searchTimeout
    /\ call' = hideOverlay(clearSearchTerm([call EXCEPT !.last = "SearchTimer"]))
    /\ UNCHANGED appVars

SearchNext ==
    \/ \E ch \in {"a", "b"} : TypeCharacter(ch)
    \/ PressEnter
    \/ PressEscape
    \/ PressBackspace
    \/ PressArrowDown
    \/ \E sel \in Selects : MoveFocus(sel)
    \/ \E sel \in Selects : BlurTimer(sel)
    \/ ClearTimer
    \/ SearchTimer

SpecSearch == SearchInit /\ [][SearchNext]_vars

(***************************************************************************)
(* Properties.                                                             *)
(***************************************************************************)
SeqToSet(seq) == {seq[i] : i \in 1..Len(seq)}

\* The distinct non-null, non-empty values (strings trimmed) of a result.
DistinctValues(rows) ==
    {IF typeof(v) = "string" THEN Str(trim(v.s)) ELSE v :
        v \in {w \in SeqToSet(rows) : w # Null /\ (typeof(w) = "string" => trim(w.s) # <<>>)}}

\* C1: a _fetchAllRecords call that returns has accumulated exactly the rows
\* of the upstream result, in order, whatever their number (none, a multiple
\* of the page size, more than a page), so the distinct values derived from
\* them are those of the whole result and not only of its first page.
C1_FetchesAllRows ==
    call.pc = "returned" =>
        /\ call.f.allRecords = call.result
        /\ SeqToSet(_getUniqueValuesWithCount(call.f.allRecords, "location_name"))
              = DistinctValues(call.result)

\* A call has returned a result of more than a page whose later pages hold
\* a value the first page does not.
C1_Witness ==
    /\ call.pc = "returned"
    /\ Len(call.result) > batchSize
    /\ DistinctValues(call.result) # DistinctValues(SubSeq(call.result, 1, batchSize))

\* The values of dimension d on the rows of tbl that carry the selected value
\* of every other dimension.
ReachableValues(tbl, d, selectedFilters) ==
    DistinctValues(
        [i \in 1..Len(tbl) |->
            IF \A e \in Dims \ {d} :
                  Truthy(Get(selectedFilters, e)) =>
                      tbl[i][Column(e)] = Get(selectedFilters, e)
            THEN tbl[i][Column(d)]
            ELSE Null])

\* C2: every option list a loadFilterOptions run has computed for a
\* dimension holds exactly the values of that dimension on the rows that
\* match the selected values of all the other dimensions.
C2_CrossFilterAllOthers ==
    \A id \in TaskIds :
        InFlight(id) =>
            \A k \in 1..Len(tasks[id].got) :
                SeqToSet(tasks[id].got[k])
                    = ReachableValues(table, DimOrder[k], tasks[id].selectedFilters)

\* The step just taken settled run id with success.
Completes(id) ==
    /\ lastAction'.name = "PageResponse"
    /\ lastAction'.task = id
    /\ InFlight(id)
    /\ tasks'[id].pc = "idle"

\* C3: once a request issued while a handleFilterChange run was in flight
\* has shown its result, the end of that earlier run changes neither the
\* option lists nor the selections shown (no stale overwrite of the newer
\* request's result).
C3_NoStaleOverwrite ==
    [][(Completes(HFC) /\ tasks[HFC].newerDone) =>
          UNCHANGED <<filterOptions, selOptions, selValue>>]_vars

\* C4: a filter change made while isUpdatingFilters is set starts nothing and
\* changes no option list, and no run starts when a run settles: a run of
\* handleFilterChange starts only in the step of a filter change made while
\* the guard is clear.
C4_DroppedNotQueued ==
    [][/\ (isUpdatingFilters /\ lastAction'.name = "FilterChange") =>
              /\ tasks' = tasks
              /\ isUpdatingFilters'
              /\ UNCHANGED <<filterOptions, selOptions, filterOptionsCache,
                             filterOptionsCacheTimestamp>>
       /\ (~InFlight(HFC) /\ tasks'[HFC].pc = "fetch") =>
              (lastAction'.name = "FilterChange" /\ ~isUpdatingFilters)
       /\ lastAction'.name \in {"PageResponse", "PageError"} =>
              \A id \in TaskIds : tasks'[id].pc = "fetch" => InFlight(id)]_vars

\* A filter change was dropped: the dropdowns differ from the selection of
\* the run in flight.
C4_Witness ==
    /\ lastAction.name = "FilterChange"
    /\ isUpdatingFilters
    /\ InFlight(HFC)
    /\ tasks[HFC].selectedFilters # SelectedFiltersOf(selValue)

\* C5: at most one loadFilterOptions call is in flight.
C5_SingleLoadInFlight == Cardinality({id \in TaskIds : InFlight(id)}) <= 1

NoSelection(selectedFilters) == \A d \in Dims : ~Truthy(Get(selectedFilters, d))

\* C6: a request without any selected value that queries upstream was made
\* with no cache younger than the TTL, and such a request made with no valid
\* cache does query upstream.
C6_EmptyRequestServedFromCache ==
    [][\A id \in TaskIds :
          /\ (~InFlight(id) /\ tasks'[id].pc = "fetch"
                /\ NoSelection(tasks'[id].selectedFilters)) =>
                 ~(isFilterCacheValid(filterOptionsCache, filterOptionsCacheTimestamp))'
          /\ (lastAction'.name \in {"CheckDbOk", "CheckDbFailed", "ClearFilters"}
                /\ lastAction'.task = id
                /\ ~(isFilterCacheValid(filterOptionsCache, filterOptionsCacheTimestamp))') =>
                 tasks'[id].pc = "fetch"]_vars

\* C7: no step of a loadFilterOptions call other than its successful end
\* changes filterOptions, the dropdown option lists, the cache or its
\* timestamp: not the start of a call that goes on to query, not a page
\* response that leaves it in flight, not its failure.
C7_FailureDiscardsAll ==
    [][/\ (\/ lastAction'.name = "PageError"
           \/ lastAction'.name = "PageResponse" /\ tasks'[lastAction'.task].pc = "fetch"
           \/ /\ lastAction'.name \in {"FilterChange", "CheckDbOk", "CheckDbFailed"}
              /\ tasks'[lastAction'.task].pc = "fetch") =>
              UNCHANGED <<filterOptions, selOptions, filterOptionsCache,
                          filterOptionsCacheTimestamp>>
       /\ (lastAction'.name = "ClearFilters" /\ tasks'[lastAction'.task].pc = "fetch") =>
              UNCHANGED <<filterOptions, selOptions>>]_vars

\* A call failed after it had gathered rows, with options and a cache from
\* an earlier call in place.
C7_Witness ==
    /\ lastAction.name = "PageError"
    /\ lastAction.partial
    /\ filterOptions # EmptyObject
    /\ filterOptionsCache # Null

\* C8 as stated: after a failed load every filter control is disabled.
C8_ErrorDisablesControls ==
    lastAction.name = "PageError" => \A d \in Dims : selDisabled[d]

\* C8, amended: a failed load shows the filter error notice and marks the
\* year, location and death-toll controls with the error state; it disables
\* no control and leaves every option list as it was.
C8_ErrorMarksControls ==
    [][lastAction'.name = "PageError" =>
          /\ selDisabled' = selDisabled
          /\ selOptions' = selOptions
          /\ filterErrorShown'
          /\ \A d \in ErrorStateDims : selErrorState'[d]
          /\ \A d \in Dims \ ErrorStateDims : selErrorState'[d] = selErrorState[d]]_vars

\* A load failed and left a control enabled with the options of an earlier
\* load.
C8_Witness ==
    /\ lastAction.name = "PageError"
    /\ \E d \in Dims : ~selDisabled[d] /\ selOptions[d] # <<>>

\* C9: a filter change with a selected value always starts querying upstream
\* and shows nothing cached, and no step of a run with a selected value
\* changes the cache or its timestamp.
C9_FilteredRequestBypassesCache ==
    [][/\ (lastAction'.name = "FilterChange" /\ ~isUpdatingFilters
             /\ ~NoSelection(SelectedFiltersOf(selValue'))) =>
              /\ tasks'[HFC].pc = "fetch"
              /\ UNCHANGED <<filterOptions, selOptions>>
       /\ \A id \in TaskIds :
             (lastAction'.task = id /\ lastAction'.name \in {"PageResponse", "PageError"}
                /\ ~NoSelection(tasks[id].selectedFilters)) =>
                 UNCHANGED <<filterOptionsCache, filterOptionsCacheTimestamp>>]_vars

\* A run with a selected value has queried upstream up to its last
\* aggregation while a valid cache was in place.
C9_Witness ==
    /\ InFlight(HFC)
    /\ ~NoSelection(tasks[HFC].selectedFilters)
    /\ tasks[HFC].dim = Len(DimOrder)
    /\ isFilterCacheValid(filterOptionsCache, filterOptionsCacheTimestamp)

\* The option lists of a load without filters over tbl.
OptionsOf(tbl) ==
    [years |-> _getUniqueValuesWithCount(QueryResult(tbl, yearsQuery(EmptyObject)), "year"),
     locations |-> _getUniqueValuesWithCount(
                       QueryResult(tbl, locationsQuery(EmptyObject)), "location_name"),
     deathsToll |-> _getUniqueValuesWithCount(
                        QueryResult(tbl, deathsTollQuery(EmptyObject)), "deaths_toll"),
     eventNames |-> _getUniqueValuesWithCount(
                        QueryResult(tbl, eventNamesQuery(EmptyObject)), "flood_event_name")]

\* C10: right after Clear Filters the cache and its timestamp are null and
\* the load is querying upstream, and when that load ends with success the
\* options held and shown are those of the table as it is then.
C10_ClearReloadsFromUpstream ==
    /\ lastAction.name = "ClearFilters" =>
          /\ filterOptionsCache = Null
          /\ filterOptionsCacheTimestamp = Null
          /\ InFlight(lastAction.task)
    /\ (lastAction.name = "PageResponse" /\ lastAction.task \in ClearIds
          /\ ~InFlight(lastAction.task)) =>
          /\ filterOptions = OptionsOf(table)
          /\ \A d \in Dims :
                selOptions[d] = [i \in 1..Len(filterOptions[OptionsKey(d)]) |->
                                    String(filterOptions[OptionsKey(d)][i])]

\* Clear Filters was pressed at cache age 0 while the options held were not
\* those of the current table.
C10_Witness ==
    /\ lastAction.name = "ClearFilters"
    /\ now = StartTime
    /\ filterOptions # EmptyObject
    /\ filterOptions # OptionsOf(table)

\* The selected values of selectedFilters are the dropdown values domValues.
SameSelection(selectedFilters, domValues) ==
    \A d \in Dims :
        IF domValues[d] = <<>>
        THEN ~Truthy(Get(selectedFilters, d))
        ELSE Get(selectedFilters, d) = SelectedFiltersOf(domValues)[d]

\* C11: every step in which the user changes the selected values (a dropdown
\* change made while no handleFilterChange run is in flight, the removal of
\* a badge, Clear Filters) leaves a loadFilterOptions call in flight that
\* recomputes the option lists for the new selection.
C11_SelectionChangeRecomputes ==
    [][(\/ lastAction'.name = "FilterChange" /\ ~isUpdatingFilters
        \/ lastAction'.name \in {"ClearIndividualFilter", "ClearFilters"}) =>
          \E id \in TaskIds :
              /\ tasks'[id].pc = "fetch"
              /\ SameSelection(tasks'[id].selectedFilters, selValue')]_vars

\* C12: the values _getUniqueValuesWithCount returns are exactly the trimmed
\* values of the non-null, non-empty inputs, each once: no null, empty or
\* white-space-only entry, no string with surrounding white space, strings
\* that differ only in case both kept, a number and the string of its digits
\* both kept.
C12_DistinctTrimmedValues ==
    call.pc = "done" =>
        /\ SeqToSet(call.sortedValues) = DistinctValues(call.data)
        /\ Cardinality(SeqToSet(call.sortedValues)) = Len(call.sortedValues)
        /\ \A i \in 1..Len(call.sortedValues) :
              LET v == call.sortedValues[i]
              IN /\ v # Null
                 /\ typeof(v) = "string" => (v.s # <<>> /\ trim(v.s) = v.s)
                 /\ \E k \in 1..Len(call.data) :
                       IF typeof(v) = "string"
                       THEN typeof(call.data[k]) = "string" /\ trim(call.data[k].s) = v.s
                       ELSE call.data[k] = v

\* A call over inputs with two strings equal after trimming only, and a null
\* or blank input.
C12_Witness ==
    /\ call.pc = "done"
    /\ \E i, j \in 1..Len(call.data) :
          /\ typeof(call.data[i]) = "string" /\ typeof(call.data[j]) = "string"
          /\ call.data[i] # call.data[j]
          /\ trim(call.data[i].s) = trim(call.data[j].s)
          /\ trim(call.data[i].s) # <<>>
    /\ \E k \in 1..Len(call.data) :
          call.data[k] = Null \/ call.data[k] = Str(<<" ">>)
    /\ Len(call.sortedValues) = 1

\* The sort key of a death-toll value.
NumericValue(v) == parseFloatOrZero(trim(String(v)))

C14_PagesInOffsetOrder ==
    call.pc \in {"awaiting", "returned", "thrown"} =>
        /\ \A k \in 1..Len(call.requests) :
              call.requests[k] = <<(k - 1) * batchSize, k * batchSize - 1>>
        /\ call.f.allRecords = SubSeq(call.result, 1, Len(call.f.allRecords))
        /\ call.pc = "awaiting" =>
              /\ Len(call.f.allRecords) = (Len(call.requests) - 1) * batchSize
              /\ call.f.offset = call.requests[Len(call.requests)][1]

\* A call has returned after three page requests.
C14_Witness ==
    /\ call.pc = "returned"
    /\ Len(call.requests) = 3
    /\ Len(call.f.allRecords) > 2 * batchSize

\* C15: when checkRateLimit answers its count query with every earlier
\* submission of the form completed, and MAX_SUBMISSIONS_PER_EMAIL_WEEK of
\* them were accepted in the last 7 days, the attempt is rejected and no
\* insert is sent.
C15_ClientCheckRejectsAtLimit ==
    [][\A c \in Clients :
          (/\ call.pc = "submissions"
           /\ call.client[c] = "checkCount"
           /\ call'.last = [name |-> "AllowedByCheck", client |-> c]
           /\ \A o \in Clients \ {c} : call.client[o] = "idle") =>
              Cardinality(RecentSubmissions(call)) < MAX_SUBMISSIONS_PER_EMAIL_WEEK]_vars

\* C16: at no time are there more than MAX_SUBMISSIONS_PER_EMAIL_WEEK
\* accepted submissions of the email in the preceding 7 days.
C16_AtMostMaxPerWindow ==
    call.pc = "submissions" =>
        Cardinality(RecentSubmissions(call)) <= MAX_SUBMISSIONS_PER_EMAIL_WEEK

\* C17: once init() has ended without a client (connection parameters
\* missing or placeholders), every filter dropdown is disabled.
C17_NoConfigDisablesAllControls ==
    (call.pc = "startup" /\ ~call.supabaseClient /\ call.initialised) =>
        \A d \in Dims : selDisabled[d]

\* The truth on a row of the expression of the preview: the parts shown,
\* joined from the left by the connector shown before each, a group standing
\* for the expression of its own parts.
RECURSIVE PreviewHolds(_, _)
PreviewHolds(row, parts) ==
    LET n == Len(parts)
        last == parts[n]
        value == IF last.isGroup THEN PreviewHolds(row, PreviewParts(last.conditions))
                 ELSE ConditionHolds(row, last)
    IN IF n = 1 THEN value
       ELSE IF last.logic = "OR" THEN PreviewHolds(row, SubSeq(parts, 1, n - 1)) \/ value
       ELSE PreviewHolds(row, SubSeq(parts, 1, n - 1)) /\ value

\* C19: the rows a query-builder filter returns are the rows of the table
\* on which the expression shown in the preview is true.
C19_ResultMatchesPreview ==
    call.pc = "applied" =>
        \A i \in 1..Len(Table2) :
            InSeq(call.data, Table2[i])
                <=> PreviewHolds(Table2[i], PreviewParts(call.queryConditions))

\* C20: the notice shown by showError (the one in the banner) is visible
\* until the user dismisses it or 10 seconds have passed since it was
\* shown, and is hidden once they have passed.
C20_NoticeVisibleForTenSeconds ==
    (call.pc = "banner" /\ call.message > 0) =>
        /\ (~call.dismissed /\ call.clock < call.shownAt + AUTO_DISMISS_SECONDS)
               => ~call.hidden
        /\ call.clock > call.shownAt + AUTO_DISMISS_SECONDS => call.hidden

\* C18: a failure of loadFloodData or of applySqlFilter leaves currentData,
\* the markers shown and the active query-builder filter as they were.
C18_FailedLoadKeepsMap ==
    [][call'.pc = "map" /\ call'.last \in {"LoadFailed", "SqlFailed"} =>
          /\ call'.currentData = call.currentData
          /\ call'.markers = call.markers
          /\ call'.activeSqlFilter = call.activeSqlFilter]_vars

\* Both operations have failed, the last one after a first page had
\* arrived, while the map showed the rows of an active query-builder filter.
C18_Witness ==
    /\ call.pc = "map"
    /\ call.last \in {"LoadFailed", "SqlFailed"}
    /\ call.failed = {"load", "sql"}
    /\ call.partial > 0
    /\ call.currentData # <<>>
    /\ call.markers = call.currentData
    /\ call.activeSqlFilter # NoSqlFilter

\* C23: _fetchAllRecords ends (returns or throws) for every upstream result;
\* while it waits for a page every page before was full, and for a result
\* of N rows it requests at most N div batchSize + 1 pages.
C23_FetchTerminates ==
    /\ [](call.pc \in {"awaiting", "returned", "thrown"} =>
            /\ Len(call.requests) <= Len(call.result) \div batchSize + 1
            /\ call.pc = "awaiting" =>
                  Len(call.f.allRecords) = (Len(call.requests) - 1) * batchSize)
    /\ <>(call.pc \in {"returned", "thrown"})

\* A call has returned a result of full pages only, after the request of
\* the empty page that follows them.
C23_Witness ==
    /\ call.pc = "returned"
    /\ Len(call.result) = 2 * batchSize
    /\ Len(call.requests) = 3

\* C30: on the same result with the same failing page the two functions
\* request the same ranges in the same order (at any moment the requests of
\* one are a prefix of those of the other) and, once both have ended, have
\* returned the same rows or thrown the same error.
C30_FetchLoopsEquivalent ==
    call.pc = "both" =>
        LET a == call.allRecords
            b == call.fromQuery
            n == Min(Len(a.requests), Len(b.requests))
        IN /\ SubSeq(a.requests, 1, n) = SubSeq(b.requests, 1, n)
           /\ (a.pc # "awaiting" /\ b.pc # "awaiting") =>
                 /\ a.requests = b.requests
                 /\ a.pc = b.pc
                 /\ a.error = b.error
                 /\ a.pc = "returned" => a.f.allRecords = b.f.allRecords

\* Both calls have returned a result of more than two pages that ends in a
\* short page.
C30_Witness ==
    /\ call.pc = "both"
    /\ call.allRecords.pc = "returned"
    /\ call.fromQuery.pc = "returned"
    /\ Len(call.result) = 2 * batchSize + 1
    /\ call.fromQuery.f.allRecords = call.result

\* C27: a failed rate-limit lookup never ends the submission: the check
\* goes on or answers allowed.  The check rejects only on the answer of a
\* lookup that found an unexpired block, or a count of
\* MAX_SUBMISSIONS_PER_EMAIL_WEEK or more; a lookup that finds no row lets
\* the submission go on.
C27_LookupFailureAllows ==
    [][\A c \in Clients :
          (call.pc = "submissions" /\ call'.last.client = c) =>
              /\ call'.last.name = "CheckError" =>
                    call'.client[c] \in {"checkCount", "insert"}
              /\ call'.last.name = "RejectedByCheck" =>
                    \/ call.client[c] = "checkBlocked" /\ BlockedRowVisible(call)
                    \/ call.client[c] = "checkCount" /\ CountLimitReached(call)
              /\ (/\ call.client[c] \in {"checkBlocked", "checkCount"}
                  /\ ~RateLimitRowVisible(call)) =>
                    call'.client[c] \in {"checkCount", "insert"}]_vars

\* The lookups of a submission failed while the email was blocked, and the
\* submission was allowed to go on to the insert.
C27_Witness ==
    /\ call.pc = "submissions"
    /\ call.last.name = "CheckError"
    /\ call.client[call.last.client] = "insert"
    /\ BlockedRowVisible(call)

\* C29: the cache and its timestamp are both null or both set; a cache that
\* is set holds the complete option lists of a load without predicates over
\* the table as it was at that load; and no step of a load with a selected
\* value, successful or failed, changes the cache or its timestamp.
C29_CacheHoldsUnfilteredResult ==
    /\ [](/\ (filterOptionsCache = Null) <=> (filterOptionsCacheTimestamp = Null)
          /\ filterOptionsCache # Null =>
                \E tbl \in Tables : filterOptionsCache = OptionsOf(tbl))
    /\ [][\A id \in TaskIds :
             (lastAction'.task = id /\ lastAction'.name \in {"PageResponse", "PageError"}
                /\ ~NoSelection(tasks[id].selectedFilters)) =>
                 UNCHANGED <<filterOptionsCache, filterOptionsCacheTimestamp>>]_vars

\* A load with a selected value has ended with success and replaced the
\* options shown, with the cache of the earlier load without filters in place.
C29_Witness ==
    /\ lastAction.name = "PageResponse"
    /\ lastAction.task = HFC
    /\ ~InFlight(HFC)
    /\ filterOptionsCache # Null
    /\ filterOptionsCacheTimestamp # Null
    /\ filterOptions # filterOptionsCache

\* C24: a step that repopulates the dropdowns leaves in each of them the
\* value it held before when that value is among the options just loaded,
\* and the empty value otherwise.
C24_RepopulationKeepsSelection ==
    [][\A id \in TaskIds :
          Completes(id) =>
              \A d \in Dims :
                  selValue'[d] = IF InSeq(selOptions'[d], selValue[d])
                                 THEN selValue[d] ELSE <<>>]_vars

\* The rows loadFloodData shows for the filters of the dropdowns.
RowsFor(filters) == SelectRows(table, loadFloodDataQuery(filters))

\* C21: with no filter update and no data load in flight (init done, no
\* load failed, no change dropped by the guard still unapplied, no
\* query-builder filter applied), currentData holds the rows of the query
\* for the values selected in the dropdowns.
C21_MapShowsSelectedFilters ==
    (/\ call.pc = "map"
     /\ ~call.initPending /\ ~call.isUpdatingFilters /\ ~call.isLoading
     /\ call.sql.pc = "idle" /\ call.activeSqlFilter = NoSqlFilter
     /\ call.failed = {} /\ ~call.dropped) =>
        call.currentData = RowsFor(call.dom)

\* C22: isUpdatingFilters and isLoading, once set, are reset, whether the
\* requests succeed or fail.
C22_FlagsAreReset ==
    /\ (call.pc = "map" /\ call.isUpdatingFilters) ~> ~call.isUpdatingFilters
    /\ (call.pc = "map" /\ call.isLoading) ~> ~call.isLoading

\* A filter change has been made, its run has settled and a data load has
\* failed: both flags are clear again.
C22_Witness ==
    /\ call.pc = "map"
    /\ call.last = "LoadFailed"
    /\ call.dom # <<>>
    /\ call.options = "idle"
    /\ ~call.isLoading
    /\ ~call.isUpdatingFilters

\* C26: a data load for the dropdown filters that ends while a
\* query-builder filter is shown as active leaves on the map only rows that
\* satisfy that query.
C26_MapSatisfiesActiveQuery ==
    [][(/\ call'.pc = "map"
        /\ call'.last = "LoadSucceeded"
        /\ call'.activeSqlFilter # NoSqlFilter) =>
          \A i \in 1..Len(call'.currentData) :
              InSeq(SelectRows(table, applyQueryConditions(<<>>, call'.activeSqlFilter)),
                    call'.currentData[i])]_vars

\* C25: when a load of the list has completed and none is in flight,
\* currentPage is at least 1 and at most the number of pages of totalItems (1 when there is no item).
C25_CurrentPageInRange ==
    (/\ call.pc = "list"
     /\ call.last = "Loaded"
     /\ \A t \in ListLoads : call.loads[t].pc = "idle") =>
        /\ 1 <= call.currentPage
        /\ call.currentPage <= (IF TotalPages(call.totalItems) > 1
                                THEN TotalPages(call.totalItems) ELSE 1)

\* C28: Escape pressed on a select while a search term is active (the term
\* is not empty and the overlay shows it) sets the selected index of that
\* select to the one it had when the first character of the term was typed.
C28_EscapeRestoresSelection ==
    [][(call'.pc = "search" /\ call'.last = "Escape"
          /\ call'.keys = call.keys + 1 /\ call.overlayActive) =>
          call'.selectedIndex[call.focus] = call.start[call.focus]]_vars

====
